---------------------------- MODULE Spec2Model ----------------------------
(***************************************************************************)
(* Host side of the Esparrier KVM USB protocol (esparrier-config/src/lib.rs)*)
(* A client task issues commands on one device handle.  Every bulk         *)
(* transfer (Esparrier::write / Esparrier::read) is one step; the device   *)
(* and the bus are the environment: each response and each completion      *)
(* status is a nondeterministic choice.                                    *)
(***************************************************************************)
EXTENDS Integers, Sequences, FiniteSets, TLC

VARIABLES
    pc,           \* position of the client task inside the current command
    failed,       \* the transfers of the current command that completed with a failure status
    op,           \* the command in progress ("none" between commands)
    handle,       \* the caller's Esparrier value: "open", or "consumed" once moved
                  \* into commit_config / reboot_device
    dev_flags,    \* feature_flags byte of the attached device's firmware
    firmware,     \* upload_ota: the firmware argument: the image Firmware(firmware)
    total_size,   \* upload_ota: local total_size
    crc,          \* upload_ota: local crc
    sent,         \* upload_ota: local sent
    chunk_no,     \* upload_ota: index of the chunk the chunks(4096) iterator is at
    packet_no,    \* upload_ota: index of the packet the chunks(64) iterator is at
    progress_callback, \* upload_ota: whether the caller passed Some(callback)
    ret,          \* the value the command returned ([kind |-> "none"] while running)
    out,          \* packets submitted on the OUT endpoint by the current command
    inp,          \* packets delivered on the IN endpoint to the current command
    progress,     \* upload_ota: invocations of progress_callback, <<sent, total>>
    enable,       \* keep_awake: the argument enable
    config,       \* set_config: the argument config, as its index in Configs
    rsize,        \* get_config: local size (number of blocks announced)
    rdata,        \* get_config: local data (bytes received so far)
    block_no,     \* set_config / get_config: index of the block the loop is at
    \* -- tasks sharing one handle (SpecShared) --
    tasks,        \* per task: the command it runs and its position in it
    ep_out,       \* Mutex<Endpoint<Bulk, Out>>: holder of the mutex, transfers submitted
    ep_in,        \* Mutex<Endpoint<Bulk, In>>: holder of the mutex, transfers submitted
    bus,          \* packets sent to the device, in the order of the bus
    resp,         \* responses the device has queued for the IN endpoint
    calls,        \* number of commands called so far
    cancelled,    \* the calls whose future was dropped, and where they were
    \* -- wait_for_device (SpecWait) --
    w_pc,         \* position inside wait_for_device
    w_ret,        \* what wait_for_device returned
    plugged,      \* the devices connected now
    w_events,     \* the hot-plug events queued for `watch` since it was made
    w_cursor,     \* how many of them watch.next() has returned
    w_closed,     \* the event stream has ended
    w_devices,    \* local devices: the result of list_devices
    w_index,      \* position of the for loop in devices
    w_log,        \* the calls of try_open_device so far and their results
    w_slept,      \* seconds slept in the busy-retry loop
    w_new,        \* devices connected since the call started
    \* -- auto_detect without wait, try_open_device (SpecDetect) --
    d_pc,         \* position inside auto_detect
    d_args,       \* the arguments vid, pid, bus, address: <<>> for None, <<v>> for Some(v)
    d_devices,    \* local devices: the result of nusb::list_devices
    d_index,      \* position of the for loop in devices
    d_log,        \* the calls of try_open_device so far and their results
    d_ret,        \* what auto_detect returned
    \* -- validate, to_vec and from_slice of one configuration (SpecConfig) --
    c_pc,         \* what was done with the configuration
    c_origin,     \* where it came from: the caller, or get_config on a device
    c_config,     \* the EsparrierConfig value
    c_valid,      \* the result of validate
    c_json,       \* the result of serde_json::to_vec
    c_parsed,     \* the result of serde_json::from_slice on c_json
    \* -- crc32 and the start of upload_ota on given bytes (SpecCrc) --
    k_pc,         \* position: crc32 called alone, or inside upload_ota
    k_data,       \* the bytes passed
    k_crc,        \* the value crc32 returned
    k_calls,      \* the number of calls of crc32
    k_out,        \* the packets upload_ota has written
    \* -- bus_id_matches on two bus ids (SpecBus) --
    m_pc,         \* whether bus_id_matches has returned
    m_a,          \* device_bus_id
    m_b,          \* filter_bus_id
    m_ret,        \* bus_id_matches(m_a, m_b)
    m_rev,        \* bus_id_matches(m_b, m_a)
    \* -- try_open_device on one device (SpecOpen) --
    o_pc,         \* whether try_open_device has returned
    o_di,         \* the device
    o_env,        \* what the system answers to its calls
    o_ret,        \* what try_open_device returned
    \* -- wait_for_device with devices held by another process (SpecWaitFair) --
    w_held        \* the devices whose interface another process has claimed

\* the variables of the single caller of Spec
Single == <<pc, failed, op, handle, dev_flags, firmware, total_size, crc, sent, chunk_no,
            packet_no, progress_callback, ret, out, inp, progress,
            enable, config, rsize, rdata, block_no>>

\* the variables of the tasks sharing one handle
SharedVars == <<tasks, ep_out, ep_in, bus, resp, calls, cancelled>>

\* the variables of wait_for_device
WaitVars == <<w_pc, w_ret, plugged, w_events, w_cursor, w_closed, w_devices, w_index,
              w_log, w_slept, w_new>>

\* the variables of auto_detect
DetectVars == <<d_pc, d_args, d_devices, d_index, d_log, d_ret>>

\* the variables of the functions on one configuration
ConfigVars == <<c_pc, c_origin, c_config, c_valid, c_json, c_parsed>>

\* the variables of crc32
CrcVars == <<k_pc, k_data, k_crc, k_calls, k_out>>

\* the variables of bus_id_matches
BusVars == <<m_pc, m_a, m_b, m_ret, m_rev>>

\* the variables of try_open_device
OpenVars == <<o_pc, o_di, o_env, o_ret>>

\* the variables of the specifications of one function or one call
OtherVars == <<DetectVars, ConfigVars, CrcVars, BusVars, OpenVars, w_held>>

\* for Spec: the variables of the other specifications
Foreign == <<SharedVars, WaitVars, OtherVars>>

\* nothing runs in the other specifications
\* an endpoint with its mutex free and no transfer submitted
IdleEndpoint == [holder |-> "none", pending |-> <<>>]

NoShared ==
    /\ tasks = <<>>
    /\ ep_out = IdleEndpoint
    /\ ep_in = IdleEndpoint
    /\ bus = <<>>
    /\ resp = <<>>
    /\ calls = 0
    /\ cancelled = {}

NoWait ==
    /\ w_pc = "none"
    /\ w_ret = [kind |-> "none"]
    /\ plugged = {}
    /\ w_events = <<>>
    /\ w_cursor = 0
    /\ w_closed = FALSE
    /\ w_devices = <<>>
    /\ w_index = 0
    /\ w_log = <<>>
    /\ w_slept = 0
    /\ w_new = {}

NoDetect ==
    /\ d_pc = "none"
    /\ d_args = <<>>
    /\ d_devices = <<>>
    /\ d_index = 0
    /\ d_log = <<>>
    /\ d_ret = [kind |-> "none"]

NoConfig ==
    /\ c_pc = "none"
    /\ c_origin = "none"
    /\ c_config = <<>>
    /\ c_valid = [kind |-> "none"]
    /\ c_json = <<>>
    /\ c_parsed = [kind |-> "none"]

NoCrc ==
    /\ k_pc = "none"
    /\ k_data = <<>>
    /\ k_crc = <<0, 0>>
    /\ k_calls = 0
    /\ k_out = <<>>

NoHeld == w_held = {}

NoOpen ==
    /\ o_pc = "none"
    /\ o_di = ""
    /\ o_env = <<>>
    /\ o_ret = <<>>

NoBus ==
    /\ m_pc = "none"
    /\ m_a = <<>>
    /\ m_b = <<>>
    /\ m_ret = FALSE
    /\ m_rev = FALSE

vars == <<Single, SharedVars, WaitVars, OtherVars>>

----------------------------------------------------------------------------
(* Bounds of the model                                                     *)

\* the largest firmware passed to upload_ota takes MaxChunks OtaData chunks
MaxChunks == 2

\* the largest number of blocks the device announces in answer to ReadConfig
MaxBlocks == 2

\* commands called by the tasks that share a handle, and futures dropped
MaxCalls == 2
MaxCancels == 1

\* wait_for_device: DeviceBusy results in the scan, and hot-plug events
MaxBusy == 2
MaxHotplug == 3

----------------------------------------------------------------------------
(* Bytes and integers                                                      *)

Byte == 0..255

\* ASCII opcodes and codes used on the wire
b_s == 115
b_o == 111
b_e == 101
b_O == 79
b_D == 68
b_P == 80
b_C == 67
b_r == 114
b_w == 119
b_c == 99
b_b == 98
b_k == 107
b_A == 65

Min(a, b) == IF a < b THEN a ELSE b

\* usize::div_ceil
div_ceil(n, d) == (n + d - 1) \div d

\* `as u8`, `as u16`
as_u8(n)  == n % 256
as_u16(n) == n % 65536

\* A u32 is kept as its two 16-bit halves << low, high >>, so that every value
\* up to 0xFFFFFFFF is represented exactly.
\* `n as u32` for a usize n
as_u32(n) == << n % 65536, (n \div 65536) % 65536 >>

\* u16::to_le_bytes, u32::to_le_bytes
u16_to_le_bytes(n) == << n % 256, (n \div 256) % 256 >>
u32_to_le_bytes(w) == u16_to_le_bytes(w[1]) \o u16_to_le_bytes(w[2])

Zeros(n) == [i \in 1..n |-> 0]

\* s[a..b] of a sequence, 0-based and half-open as in Rust
Slice(s, a, b) == [i \in 1..(b - a) |-> s[a + i]]

\* A borrowed slice &[u8] of a buffer is kept as the range lo..hi it views;
\* whole(len) views a whole buffer of len bytes.
whole(len) == [lo |-> 0, hi |-> len]
slice_len(v) == v.hi - v.lo
slice_bytes(buf, v) == Slice(buf, v.lo, v.hi)

\* slice.chunks(n): the number of items, and the k-th item (from 0)
chunks_count(v, n) == div_ceil(slice_len(v), n)
chunks_item(v, n, k) == [lo |-> v.lo + k * n, hi |-> Min(v.hi, v.lo + (k + 1) * n)]

----------------------------------------------------------------------------
(* Return values                                                           *)

NoRet == [kind |-> "none"]
Ok(v) == [kind |-> "Ok", value |-> v]
Err(e) == [kind |-> "Err", error |-> e]
\* a Rust panic unwinding out of the call (index out of bounds, failed assert)
Panic == [kind |-> "Panic"]

InvalidResponse == [variant |-> "InvalidResponse"]
TransferFailed == [variant |-> "TransferFailed"]
OtaNotSupported == [variant |-> "OtaNotSupported"]
OtaError(msg) == [variant |-> "OtaError", msg |-> msg]

----------------------------------------------------------------------------
(* EsparrierState                                                          *)

FeatureFlag_Ota == 64

\* from_bytes reading active and keep_awake from each other's byte
EsparrierState_from_bytes_swapped(bytes) ==
    [ version_major    |-> bytes[2],
      version_minor    |-> bytes[3],
      version_patch    |-> bytes[4],
      feature_flags    |-> bytes[5],
      ip_address       |-> << bytes[6], bytes[7], bytes[8], bytes[9] >>,
      ip_prefix        |-> bytes[10],
      server_connected |-> bytes[11] # 0,
      active           |-> bytes[13] # 0,
      keep_awake       |-> bytes[12] # 0,
      model_id         |-> bytes[14] ]

EsparrierState_from_bytes(bytes) ==
    [ version_major    |-> bytes[2],
      version_minor    |-> bytes[3],
      version_patch    |-> bytes[4],
      feature_flags    |-> bytes[5],
      ip_address       |-> << bytes[6], bytes[7], bytes[8], bytes[9] >>,
      ip_prefix        |-> bytes[10],
      server_connected |-> bytes[11] # 0,
      active           |-> bytes[12] # 0,
      keep_awake       |-> bytes[13] # 0,
      model_id         |-> bytes[14] ]

\* self.feature_flags & (flag as u8) != 0, for a flag that is a single bit
has_feature(state, flag) == (state.feature_flags \div flag) % 2 # 0

has_ota_support(state) == has_feature(state, FeatureFlag_Ota)

version(state) == << state.version_major, state.version_minor, state.version_patch >>

model_id_to_name(model_id) ==
    CASE model_id = 1   -> "m5atoms3-lite"
      [] model_id = 2   -> "m5atoms3"
      [] model_id = 3   -> "m5atoms3r"
      [] model_id = 4   -> "devkitc-1_0"
      [] model_id = 5   -> "devkitc-1_1"
      [] model_id = 6   -> "xiao-esp32s3"
      [] model_id = 7   -> "esp32-s3-eth"
      [] model_id = 255 -> "generic"
      [] OTHER          -> "None"

model_name(state) == model_id_to_name(state.model_id)

----------------------------------------------------------------------------
(* crc32                                                                   *)

RECURSIVE Xor(_, _)
\* bitwise ^ on unsigned integers
Xor(a, b) ==
    IF a = 0 THEN b
    ELSE IF b = 0 THEN a
    ELSE ((a + b) % 2) + 2 * Xor(a \div 2, b \div 2)

\* ^, >> 1, & 1 and ! on u32
u32_xor(a, b) == << Xor(a[1], b[1]), Xor(a[2], b[2]) >>
u32_shr1(a) == << (a[1] \div 2) + 32768 * (a[2] % 2), a[2] \div 2 >>
u32_bit0(a) == a[1] % 2
u32_not(a) == << 65535 - a[1], 65535 - a[2] >>

CRC_POLY == << 33568, 60856 >>     \* 0xEDB88320
CRC_INIT == << 65535, 65535 >>     \* 0xFFFFFFFF

\* one pass of the inner loop: if crc & 1 != 0 { (crc >> 1) ^ POLY } else { crc >> 1 }
crc32_shift(c) ==
    IF u32_bit0(c) # 0 THEN u32_xor(u32_shr1(c), CRC_POLY) ELSE u32_shr1(c)

RECURSIVE crc32_bits(_, _)
\* for _ in 0..8   (the test on `next` only makes it the value computed first)
crc32_bits(c, n) ==
    IF n = 0 THEN c
    ELSE LET next == crc32_shift(c)
         IN  IF next[1] >= 0 THEN crc32_bits(next, n - 1) ELSE next

\* crc ^= byte as u32, then the eight shifts
crc32_byte(c, byte) == crc32_bits(u32_xor(c, as_u32(byte)), 8)

RECURSIVE crc32_fold(_, _, _, _)
\* for &byte in data, over data[lo..hi] (1-based, inclusive), in order: the
\* left half first, then the right half from the value the left half gave
crc32_fold(data, lo, hi, c) ==
    IF lo > hi THEN c
    ELSE IF lo = hi THEN crc32_byte(c, data[lo])
    ELSE LET mid  == (lo + hi) \div 2
             left == crc32_fold(data, lo, mid, c)
         IN  IF left[1] >= 0 THEN crc32_fold(data, mid + 1, hi, left) ELSE left

\* crc32 returning crc in place of !crc
crc32_no_final_not(data) == crc32_fold(data, 1, Len(data), CRC_INIT)

\* let mut crc = 0xFFFFFFFF; the loop; !crc
crc32(data) == u32_not(crc32_fold(data, 1, Len(data), CRC_INIT))

----------------------------------------------------------------------------
(* upload_ota: packets                                                     *)

MAX_FIRMWARE_SIZE == 1048576   \* 0x100000
CHUNK_SIZE == 4096
PACKET_SIZE == 64

\* the size check without the test for an empty firmware
invalid_firmware_size_no_empty(n) == n > MAX_FIRMWARE_SIZE

\* total_size == 0 || total_size > 0x100000
invalid_firmware_size(n) == n = 0 \/ n > MAX_FIRMWARE_SIZE

\* start_cmd with the crc placed before the size
start_cmd_crc_first(size, c) ==
    << b_O >> \o u32_to_le_bytes(c) \o u32_to_le_bytes(as_u32(size))

\* start_cmd: 'O' + size(4B LE) + crc(4B LE)
start_cmd(size, c) == << b_O >> \o u32_to_le_bytes(as_u32(size)) \o u32_to_le_bytes(c)

\* packets_of with the division rounding down
packets_of_floor(chunk_len) == as_u8(chunk_len \div PACKET_SIZE)

\* packets = chunk_len.div_ceil(64) as u8
packets_of(chunk_len) == as_u8(div_ceil(chunk_len, PACKET_SIZE))

\* [b'D', packets, length_bytes[0], length_bytes[1]]
data_header(chunk_len) ==
    << b_D, packets_of(chunk_len) >> \o u16_to_le_bytes(as_u16(chunk_len))

\* let mut packet = [0u8; 64]; packet[..packet_data.len()].copy_from_slice(packet_data)
padded_packet(packet_data) == packet_data \o Zeros(PACKET_SIZE - Len(packet_data))

\* ota_error_msg with the messages of 'c' and 'w' exchanged
ota_error_msg_exchanged(code) ==
    CASE code = 97  -> "OTA already in progress"
      [] code = 110 -> "OTA not started"
      [] code = 105 -> "OTA initialization failed"
      [] code = 119 -> "CRC mismatch"
      [] code = 99  -> "OTA write failed"
      [] code = 102 -> "OTA flush failed"
      [] code = 115 -> "Invalid firmware size"
      [] code = 112 -> "OTA partition not found"
      [] OTHER      -> "Unknown OTA error"

ota_error_msg(code) ==
    CASE code = 97  -> "OTA already in progress"
      [] code = 110 -> "OTA not started"
      [] code = 105 -> "OTA initialization failed"
      [] code = 119 -> "OTA write failed"
      [] code = 99  -> "CRC mismatch"
      [] code = 102 -> "OTA flush failed"
      [] code = 115 -> "Invalid firmware size"
      [] code = 112 -> "OTA partition not found"
      [] OTHER      -> "Unknown OTA error"

parse_ota_error(r) ==
    IF Len(r) >= 3 /\ r[2] = b_O
    THEN OtaError(ota_error_msg(r[3]))
    ELSE InvalidResponse

----------------------------------------------------------------------------
(* EsparrierConfig                                                         *)

\* A String is the sequence of its bytes; an Option<String> is <<>> for None
\* and << s >> for Some(s); a Vec<String> is a sequence of strings.

\* the names of the fields, as bytes
name_ssid == << 115, 115, 105, 100 >>
name_password == << 112, 97, 115, 115, 119, 111, 114, 100 >>
name_server == << 115, 101, 114, 118, 101, 114 >>
name_screen_name == << 115, 99, 114, 101, 101, 110, 95, 110, 97, 109, 101 >>
name_screen_width == << 115, 99, 114, 101, 101, 110, 95, 119, 105, 100, 116, 104 >>
name_screen_height == << 115, 99, 114, 101, 101, 110, 95, 104, 101, 105, 103, 104, 116 >>
name_flip_wheel == << 102, 108, 105, 112, 95, 119, 104, 101, 101, 108 >>
name_polling_rate == << 112, 111, 108, 108, 105, 110, 103, 95, 114, 97, 116, 101 >>
name_jiggle_interval == << 106, 105, 103, 103, 108, 101, 95, 105, 110, 116, 101, 114, 118, 97, 108 >>
name_brightness == << 98, 114, 105, 103, 104, 116, 110, 101, 115, 115 >>
name_ip_addr == << 105, 112, 95, 97, 100, 100, 114 >>
name_dns_server == << 100, 110, 115, 95, 115, 101, 114, 118, 101, 114 >>
name_gateway == << 103, 97, 116, 101, 119, 97, 121 >>
name_vid == << 118, 105, 100 >>
name_pid == << 112, 105, 100 >>
name_manufacturer == << 109, 97, 110, 117, 102, 97, 99, 116, 117, 114, 101, 114 >>
name_product == << 112, 114, 111, 100, 117, 99, 116 >>
name_serial_number == << 115, 101, 114, 105, 97, 108, 95, 110, 117, 109, 98, 101, 114 >>
name_landing_url == << 108, 97, 110, 100, 105, 110, 103, 95, 117, 114, 108 >>
name_watchdog_timeout == << 119, 97, 116, 99, 104, 100, 111, 103, 95, 116, 105, 109, 101, 111, 117, 116 >>

\* the defaults of the fields (SCREEN_WIDTH .. WATCHDOG_TIMEOUT)
SCREEN_WIDTH == 1920
SCREEN_HEIGHT == 1080
REVERSED_WHEEL == FALSE
BRIGHTNESS == 30
POLLING_RATE == 200
JIGGLE_INTERVAL == 60
USB_VID == 3338        \* 0x0d0a
USB_PID == 49374       \* 0xc0de
USB_MANUFACTURER == << 48, 100, 48, 97, 46, 99, 111, 109 >>                      \* "0d0a.com"
LANDING_URL == << 104, 116, 116, 112, 115, 58, 47, 47, 48, 100, 48, 97, 46, 99, 111, 109 >>   \* "https://0d0a.com"
USB_PRODUCT == << 69, 115, 112, 97, 114, 114, 105, 101, 114, 32, 75, 86, 77 >>   \* "Esparrier KVM"
USB_SERIAL_NUMBER == << 56, 56, 56, 56, 56, 56, 56, 56 >>   \* "88888888"
WATCHDOG_TIMEOUT == 15

\* literals of the JSON text
json_true == << 116, 114, 117, 101 >>
json_false == << 102, 97, 108, 115, 101 >>


\* the bytes of the JSON punctuation
QUOTE == 34
BACKSLASH == 92

----------------------------------------------------------------------------
(* Parsers of the standard library used by validate                        *)

is_digit(b) == b \in 48..57

RECURSIVE decimal_from(_, _, _)
\* the value of the decimal digits s[i..], on top of acc; it stops growing
\* above 10^6, which is beyond every range it is compared with
decimal_from(s, i, acc) ==
    IF i > Len(s) \/ acc > 1000000 THEN acc
    ELSE decimal_from(s, i + 1, acc * 10 + (s[i] - 48))

all_digits(s) == Len(s) >= 1 /\ \A i \in 1..Len(s) : is_digit(s[i])

\* the first index of byte ch in s, 0 when there is none
index_of(s, ch) ==
    IF \E i \in 1..Len(s) : s[i] = ch
    THEN CHOOSE i \in 1..Len(s) : s[i] = ch /\ \A j \in 1..(i - 1) : s[j] # ch
    ELSE 0

RECURSIVE split(_, _)
\* str::split(ch): the pieces of s between the occurrences of ch
split(s, ch) ==
    LET i == index_of(s, ch)
    IN  IF i = 0 THEN << s >>
        ELSE << Slice(s, 0, i - 1) >> \o split(Slice(s, i, Len(s)), ch)

\* str::parse::<u8>(): an optional '+', then digits only, the value within u8
parse_u8_ok(s) ==
    LET digits == IF Len(s) >= 1 /\ s[1] = 43 THEN Tail(s) ELSE s
    IN  all_digits(digits) /\ decimal_from(digits, 1, 0) <= 255

\* one octet of a dotted address: 1 to 3 digits, no zero prefix, at most 255
octet_ok(s) ==
    /\ all_digits(s)
    /\ Len(s) <= 3
    /\ (Len(s) > 1 => s[1] # 48)
    /\ decimal_from(s, 1, 0) <= 255

\* whether s is four octets separated by '.'
dotted_quad_ok(s) ==
    LET parts == split(s, 46)
    IN  Len(parts) = 4 /\ \A p \in 1..4 : octet_ok(parts[p])

\* Ipv4Addr::from_str(s).is_ok()
Ipv4Addr_from_str_ok(s) == Len(s) <= 15 /\ dotted_quad_ok(s)

\* s.parse::<SocketAddrV4>().is_ok(): a dotted address, ':', a port within u16
SocketAddrV4_parse_ok(s) ==
    LET i == index_of(s, 58)
    IN  /\ i > 0
        /\ dotted_quad_ok(Slice(s, 0, i - 1))
        /\ LET port == Slice(s, i, Len(s))
           IN  all_digits(port) /\ decimal_from(port, 1, 0) <= 65535

----------------------------------------------------------------------------
(* EsparrierConfig::validate                                               *)

ConfigError(kind, field) == [variant |-> "ConfigError", kind |-> kind, field |-> field]
FieldOutOfRange(field, min, max) ==
    [variant |-> "ConfigError", kind |-> "FieldOutOfRange", field |-> field,
     min |-> min, max |-> max]

\* validate_string accepting a string one byte longer
validate_string_lenient(s, name, max_len) ==
    IF Len(s) = 0 THEN Err(ConfigError("FieldEmpty", name))
    ELSE IF Len(s) > max_len + 1 THEN Err(ConfigError("FieldTooLong", name))
    ELSE Ok("unit")

validate_string(s, name, max_len) ==
    IF Len(s) = 0 THEN Err(ConfigError("FieldEmpty", name))
    ELSE IF Len(s) > max_len THEN Err(ConfigError("FieldTooLong", name))
    ELSE Ok("unit")

\* validate_num! testing the lower limit only
validate_num_min_only(v, name, min, max) ==
    IF v < min THEN Err(FieldOutOfRange(name, min, max)) ELSE Ok("unit")

\* validate_num!(field, min, max)
validate_num(v, name, min, max) ==
    IF v < min \/ v > max THEN Err(FieldOutOfRange(name, min, max)) ELSE Ok("unit")

\* if self.server.parse::<SocketAddrV4>().is_err()
validate_server(server) ==
    IF ~SocketAddrV4_parse_ok(server)
    THEN Err(ConfigError("InvalidEndpoint", "server"))
    ELSE Ok("unit")

\* validate_ip_addr leaving the prefix unexamined
validate_ip_addr_any_prefix(ip_addr) ==
    IF Len(ip_addr) = 0 THEN Ok("unit")
    ELSE LET ip == ip_addr[1]
             i  == index_of(ip, 47)
         IN  IF i = 0
             THEN Err(ConfigError("InvalidIpAddress", "ip_addr"))
             ELSE IF ~Ipv4Addr_from_str_ok(Slice(ip, 0, i - 1))
                  THEN Err(ConfigError("InvalidIpAddress", "ip_addr"))
                  ELSE Ok("unit")

\* if let Some(ip) = &self.ip_addr: split_once('/'), the address, the prefix
validate_ip_addr(ip_addr) ==
    IF Len(ip_addr) = 0 THEN Ok("unit")
    ELSE LET ip == ip_addr[1]
             i  == index_of(ip, 47)
         IN  IF i = 0
             THEN Err(ConfigError("InvalidIpAddress", "ip_addr"))
             ELSE IF ~Ipv4Addr_from_str_ok(Slice(ip, 0, i - 1))
                  THEN Err(ConfigError("InvalidIpAddress", "ip_addr"))
                  ELSE IF ~parse_u8_ok(Slice(ip, i, Len(ip)))
                       THEN Err(ConfigError("InvalidIpCidrPrefix", "ip_addr"))
                       ELSE Ok("unit")

\* for d in &self.dns_server
validate_dns_server(dns_server) ==
    IF \E i \in 1..Len(dns_server) : ~Ipv4Addr_from_str_ok(dns_server[i])
    THEN Err(ConfigError("InvalidIpAddress", "dns_server"))
    ELSE Ok("unit")

\* if let Some(gateway) = &self.gateway
validate_gateway(gateway) ==
    IF Len(gateway) = 1 /\ ~Ipv4Addr_from_str_ok(gateway[1])
    THEN Err(ConfigError("InvalidIpAddress", "gateway"))
    ELSE Ok("unit")

\* if self.landing_url.len() > 255
validate_landing_url(landing_url) ==
    IF Len(landing_url) > 255
    THEN Err(ConfigError("FieldTooLong", "landing_url"))
    ELSE Ok("unit")

\* the result of the first check that fails, Ok(()) when none does
first_failure(checks) ==
    IF \E i \in 1..Len(checks) : checks[i].kind = "Err"
    THEN checks[CHOOSE i \in 1..Len(checks) :
                    /\ checks[i].kind = "Err"
                    /\ \A j \in 1..(i - 1) : checks[j].kind # "Err"]
    ELSE Ok("unit")

\* EsparrierConfig::validate: its checks in the order of the code
validate(c) ==
    first_failure(<<
        validate_string(c.ssid, "ssid", 32),
        validate_string(c.password, "password", 64),
        validate_string(c.server, "server", 64),
        validate_server(c.server),
        validate_string(c.screen_name, "screen_name", 64),
        validate_num(c.screen_width, "screen_width", 1, 32767),
        validate_num(c.screen_height, "screen_height", 1, 32767),
        validate_num(c.brightness, "brightness", 1, 100),
        validate_ip_addr(c.ip_addr),
        validate_dns_server(c.dns_server),
        validate_gateway(c.gateway),
        validate_string(c.manufacturer, "manufacturer", 64),
        validate_string(c.product, "product", 64),
        validate_string(c.serial_number, "serial_number", 64),
        validate_landing_url(c.landing_url) >>)

----------------------------------------------------------------------------
(* serde_json::to_vec(&EsparrierConfig)                                    *)

RECURSIVE concat_range(_, _, _)
\* ss[lo] \o ... \o ss[hi], for a sequence ss of sequences
concat_range(ss, lo, hi) ==
    IF lo > hi THEN <<>>
    ELSE IF lo = hi THEN ss[lo]
    ELSE LET mid == (lo + hi) \div 2
         IN  concat_range(ss, lo, mid) \o concat_range(ss, mid + 1, hi)

concat(ss) == concat_range(ss, 1, Len(ss))

\* the items of ss with sep between each two
join(ss, sep) ==
    concat([i \in 1..(2 * Len(ss) - 1) |-> IF i % 2 = 1 THEN ss[(i + 1) \div 2] ELSE sep])

hex_digit(n) == IF n < 10 THEN 48 + n ELSE 87 + n

\* a byte of a string written as it is
escape_byte_plain(b) == << b >>

\* the JSON escape of one byte of a string
escape_byte(b) ==
    CASE b = QUOTE     -> << BACKSLASH, QUOTE >>
      [] b = BACKSLASH -> << BACKSLASH, BACKSLASH >>
      [] b = 8         -> << BACKSLASH, 98 >>
      [] b = 12        -> << BACKSLASH, 102 >>
      [] b = 10        -> << BACKSLASH, 110 >>
      [] b = 13        -> << BACKSLASH, 114 >>
      [] b = 9         -> << BACKSLASH, 116 >>
      [] b < 32 /\ b \notin {8, 9, 10, 12, 13}
                       -> << BACKSLASH, 117, 48, 48, hex_digit(b \div 16), hex_digit(b % 16) >>
      [] OTHER         -> << b >>

json_string(s) ==
    << QUOTE >> \o concat([i \in 1..Len(s) |-> escape_byte(s[i])]) \o << QUOTE >>

RECURSIVE json_number(_)
\* an unsigned integer in decimal
json_number(n) ==
    IF n < 10 THEN << 48 + n >> ELSE json_number(n \div 10) \o << 48 + (n % 10) >>

json_bool(b) == IF b THEN json_true ELSE json_false

\* a Vec<String>
json_string_array(v) ==
    << 91 >> \o join([i \in 1..Len(v) |-> json_string(v[i])], << 44 >>) \o << 93 >>

\* "name":value
json_member(name, value) == json_string(name) \o << 58 >> \o value

\* the members serialized for c, in the order of the struct: a field with
\* skip_serializing_if is left out when its predicate holds
json_members(c) ==
    LET always(name, value) == << json_member(name, value) >>
        unless(skip, name, value) == IF skip THEN <<>> ELSE << json_member(name, value) >>
    IN  concat(<<
          always(name_ssid, json_string(c.ssid)),
          unless(c.password = <<>>, name_password, json_string(c.password)),
          always(name_server, json_string(c.server)),
          always(name_screen_name, json_string(c.screen_name)),
          always(name_screen_width, json_number(c.screen_width)),
          always(name_screen_height, json_number(c.screen_height)),
          always(name_flip_wheel, json_bool(c.flip_wheel)),
          unless(c.polling_rate = POLLING_RATE, name_polling_rate, json_number(c.polling_rate)),
          unless(c.jiggle_interval = JIGGLE_INTERVAL, name_jiggle_interval,
                 json_number(c.jiggle_interval)),
          always(name_brightness, json_number(c.brightness)),
          unless(c.ip_addr = <<>>, name_ip_addr,
                 IF c.ip_addr = <<>> THEN <<>> ELSE json_string(c.ip_addr[1])),
          unless(c.dns_server = <<>>, name_dns_server, json_string_array(c.dns_server)),
          unless(c.gateway = <<>>, name_gateway,
                 IF c.gateway = <<>> THEN <<>> ELSE json_string(c.gateway[1])),
          unless(c.vid = USB_VID, name_vid, json_number(c.vid)),
          unless(c.pid = USB_PID, name_pid, json_number(c.pid)),
          unless(c.manufacturer = USB_MANUFACTURER, name_manufacturer,
                 json_string(c.manufacturer)),
          unless(c.product = USB_PRODUCT, name_product, json_string(c.product)),
          unless(c.serial_number = USB_SERIAL_NUMBER, name_serial_number,
                 json_string(c.serial_number)),
          unless(c.landing_url = LANDING_URL, name_landing_url, json_string(c.landing_url)),
          unless(c.watchdog_timeout = WATCHDOG_TIMEOUT, name_watchdog_timeout,
                 json_number(c.watchdog_timeout)) >>)

\* serde_json::to_vec(&config): the compact JSON object
to_vec(c) == << 123 >> \o join(json_members(c), << 44 >>) \o << 125 >>

----------------------------------------------------------------------------
(* serde_json::from_slice::<EsparrierConfig>                               *)

\* A parsing step gives Fail, or Got(v, i): the value read and the index of
\* the byte after it.
Fail == [ok |-> FALSE]
Got(v, i) == [ok |-> TRUE, val |-> v, pos |-> i]

\* F applied to the value of v, which is worked out once
bind(v, F(_)) == CHOOSE y \in {F(x) : x \in {v}} : TRUE

\* the byte at index i of s, -1 past the end
peek(s, i) == IF i <= Len(s) THEN s[i] ELSE -1

is_ws(b) == b \in {32, 9, 10, 13}

RECURSIVE skip_ws(_, _)
skip_ws(s, i) == IF is_ws(peek(s, i)) THEN skip_ws(s, i + 1) ELSE i

\* whether lit stands at index i of s
literal_at(s, i, lit) ==
    /\ i + Len(lit) - 1 <= Len(s)
    /\ \A k \in 1..Len(lit) : s[i + k - 1] = lit[k]

json_null == << 110, 117, 108, 108 >>

hex_value(b) ==
    CASE b \in 48..57  -> b - 48
      [] b \in 97..102 -> b - 87
      [] b \in 65..70  -> b - 55
      [] OTHER         -> -1

\* the UTF-8 encoding of the code point cp < 0x10000
utf8_encode(cp) ==
    IF cp < 128 THEN << cp >>
    ELSE IF cp < 2048 THEN << 192 + (cp \div 64), 128 + (cp % 64) >>
    ELSE << 224 + (cp \div 4096), 128 + ((cp \div 64) % 64), 128 + (cp % 64) >>

\* the index of the first byte from index i on that is not ASCII, or the
\* index after the end
ascii_end(s, i) ==
    CHOOSE j \in i..(Len(s) + 1) :
        /\ j > Len(s) \/ s[j] >= 128
        /\ \A m \in i..(j - 1) : s[m] < 128

RECURSIVE utf8_valid_from(_, _)
\* whether s[i..] is well-formed UTF-8
utf8_valid_from(s, i) ==
    bind(ascii_end(s, i), LAMBDA j :
        IF j > Len(s) THEN TRUE
        ELSE LET b == s[j]
                 cont(k, lo, hi) == peek(s, j + k) >= lo /\ peek(s, j + k) <= hi
             IN  CASE b \in 194..223 -> cont(1, 128, 191) /\ utf8_valid_from(s, j + 2)
                   [] b = 224 -> cont(1, 160, 191) /\ cont(2, 128, 191) /\ utf8_valid_from(s, j + 3)
                   [] b \in (225..236) \cup {238, 239} ->
                         cont(1, 128, 191) /\ cont(2, 128, 191) /\ utf8_valid_from(s, j + 3)
                   [] b = 237 -> cont(1, 128, 159) /\ cont(2, 128, 191) /\ utf8_valid_from(s, j + 3)
                   [] b = 240 -> /\ cont(1, 144, 191) /\ cont(2, 128, 191) /\ cont(3, 128, 191)
                                 /\ utf8_valid_from(s, j + 4)
                   [] b \in 241..243 -> /\ cont(1, 128, 191) /\ cont(2, 128, 191) /\ cont(3, 128, 191)
                                        /\ utf8_valid_from(s, j + 4)
                   [] b = 244 -> /\ cont(1, 128, 143) /\ cont(2, 128, 191) /\ cont(3, 128, 191)
                                 /\ utf8_valid_from(s, j + 4)
                   [] OTHER -> FALSE)

\* whether byte b ends a run of plain bytes of a JSON string: a quote, a
\* backslash, a control character, or the end of the input
ends_run(b) == b = QUOTE \/ b = BACKSLASH \/ b < 32

\* the index of the first byte from index i on that ends a run
plain_end(s, i) ==
    CHOOSE j \in i..(Len(s) + 1) :
        /\ ends_run(peek(s, j))
        /\ \A m \in i..(j - 1) : ~ends_run(s[m])

RECURSIVE string_body(_, _, _)
\* the rest of a JSON string after its opening quote: the bytes up to the
\* closing quote with the escapes decoded (a \u escape of a surrogate, which
\* takes a second escape, is not decoded: Fail)
string_body(s, i, acc) ==
    bind(<< plain_end(s, i), acc >>, LAMBDA p :
        bind(<< p[1], p[2] \o SubSeq(s, i, p[1] - 1), peek(s, p[1]), peek(s, p[1] + 1) >>, LAMBDA q :
            IF q[3] # BACKSLASH THEN (IF q[3] = QUOTE THEN Got(q[2], q[1] + 1) ELSE Fail)
            ELSE CASE q[4] = QUOTE     -> string_body(s, q[1] + 2, Append(q[2], QUOTE))
                   [] q[4] = BACKSLASH -> string_body(s, q[1] + 2, Append(q[2], BACKSLASH))
                   [] q[4] = 47        -> string_body(s, q[1] + 2, Append(q[2], 47))
                   [] q[4] = 98        -> string_body(s, q[1] + 2, Append(q[2], 8))
                   [] q[4] = 102       -> string_body(s, q[1] + 2, Append(q[2], 12))
                   [] q[4] = 110       -> string_body(s, q[1] + 2, Append(q[2], 10))
                   [] q[4] = 114       -> string_body(s, q[1] + 2, Append(q[2], 13))
                   [] q[4] = 116       -> string_body(s, q[1] + 2, Append(q[2], 9))
                   [] q[4] = 117       ->
                        LET h(k) == hex_value(peek(s, q[1] + 1 + k))
                            cp   == 4096 * h(1) + 256 * h(2) + 16 * h(3) + h(4)
                        IN  IF h(1) < 0 \/ h(2) < 0 \/ h(3) < 0 \/ h(4) < 0 THEN Fail
                            ELSE IF cp \in 55296..57343 THEN Fail
                            ELSE string_body(s, q[1] + 6, q[2] \o utf8_encode(cp))
                   [] OTHER         -> Fail))

\* a JSON string at index i, for a String: it must be UTF-8
read_string(s, i) ==
    IF peek(s, i) # QUOTE THEN Fail
    ELSE bind(string_body(s, i + 1, <<>>),
              LAMBDA r : IF r.ok /\ ~utf8_valid_from(r.val, 1) THEN Fail ELSE r)

RECURSIVE digits_end(_, _)
\* the index after the digits that stand at index i
digits_end(s, i) == IF is_digit(peek(s, i)) THEN digits_end(s, i + 1) ELSE i

RECURSIVE digits_le(_, _, _)
\* whether the digit string a is at most the digit string b of the same length
digits_le(a, b, k) ==
    IF k > Len(a) THEN TRUE
    ELSE IF a[k] < b[k] THEN TRUE
    ELSE IF a[k] > b[k] THEN FALSE
    ELSE digits_le(a, b, k + 1)

RECURSIVE decimal_value(_, _, _)
decimal_value(s, i, acc) ==
    IF i > Len(s) THEN acc ELSE decimal_value(s, i + 1, acc * 10 + (s[i] - 48))

\* a JSON number at index i, for an unsigned integer type whose largest value
\* has the decimal digits max: no sign, no leading zero, no fraction or exponent
read_unsigned(s, i, max) ==
    LET j == digits_end(s, i)
        d == Slice(s, i - 1, j - 1)
    IN  IF j = i THEN Fail
        ELSE IF s[i] = 48 /\ j > i + 1 THEN Fail
        ELSE IF peek(s, j) \in {46, 101, 69} THEN Fail
        ELSE IF Len(d) > Len(max) \/ (Len(d) = Len(max) /\ ~digits_le(d, max, 1)) THEN Fail
        ELSE Got(decimal_value(d, 1, 0), j)

U8_MAX == << 50, 53, 53 >>                                  \* "255"
U16_MAX == << 54, 53, 53, 51, 53 >>                         \* "65535"
U32_MAX == << 52, 50, 57, 52, 57, 54, 55, 50, 57, 53 >>     \* "4294967295"

read_bool(s, i) ==
    IF literal_at(s, i, json_true) THEN Got(TRUE, i + 4)
    ELSE IF literal_at(s, i, json_false) THEN Got(FALSE, i + 5)
    ELSE Fail

\* Option<String>: null, or a string
read_option_string(s, i) ==
    IF literal_at(s, i, json_null) THEN Got(<<>>, i + 4)
    ELSE bind(read_string(s, i),
              LAMBDA r : IF r.ok THEN Got(<< r.val >>, r.pos) ELSE Fail)

RECURSIVE string_items(_, _, _)
\* the items of an array of strings after its first item: , item ... ]
string_items(s, i, acc) ==
    bind(skip_ws(s, i), LAMBDA j :
        IF peek(s, j) = 93 THEN Got(acc, j + 1)
        ELSE IF peek(s, j) # 44 THEN Fail
        ELSE bind(<< read_string(s, skip_ws(s, j + 1)), acc >>, LAMBDA r :
                 IF r[1].ok THEN string_items(s, r[1].pos, Append(r[2], r[1].val))
                 ELSE Fail))

\* Vec<String>: an array of strings
read_string_array(s, i) ==
    IF peek(s, i) # 91 THEN Fail
    ELSE bind(skip_ws(s, i + 1), LAMBDA j :
             IF peek(s, j) = 93 THEN Got(<<>>, j + 1)
             ELSE bind(read_string(s, j), LAMBDA r :
                      IF r.ok THEN string_items(s, r.pos, << r.val >>) ELSE Fail))

\* a JSON number of any form at index i: -? int frac? exp?
skip_number(s, i) ==
    LET i1 == IF peek(s, i) = 45 THEN i + 1 ELSE i
        i2 == digits_end(s, i1)
        i3 == IF peek(s, i2) = 46 THEN digits_end(s, i2 + 1) ELSE i2
        e1 == IF peek(s, i3) \in {101, 69}
              THEN (IF peek(s, i3 + 1) \in {43, 45} THEN i3 + 2 ELSE i3 + 1)
              ELSE i3
        i4 == IF e1 > i3 THEN digits_end(s, e1) ELSE i3
    IN  IF i2 = i1 THEN Fail
        ELSE IF s[i1] = 48 /\ i2 > i1 + 1 THEN Fail
        ELSE IF peek(s, i2) = 46 /\ i3 = i2 + 1 THEN Fail
        ELSE IF e1 > i3 /\ i4 = e1 THEN Fail
        ELSE Got("ignored", i4)

RECURSIVE skip_value(_, _), skip_items(_, _), skip_members(_, _)
\* any JSON value at index i, read and dropped (the value of an unknown field)
skip_value(s, i) ==
    bind(peek(s, i), LAMBDA b :
        CASE b = QUOTE -> string_body(s, i + 1, <<>>)
          [] b = 116 -> IF literal_at(s, i, json_true) THEN Got("ignored", i + 4) ELSE Fail
          [] b = 102 -> IF literal_at(s, i, json_false) THEN Got("ignored", i + 5) ELSE Fail
          [] b = 110 -> IF literal_at(s, i, json_null) THEN Got("ignored", i + 4) ELSE Fail
          [] b = 45 \/ is_digit(b) -> skip_number(s, i)
          [] b = 91 ->
                bind(skip_ws(s, i + 1), LAMBDA j :
                    IF peek(s, j) = 93 THEN Got("ignored", j + 1)
                    ELSE bind(skip_value(s, j), LAMBDA r :
                             IF r.ok THEN skip_items(s, r.pos) ELSE Fail))
          [] b = 123 ->
                bind(skip_ws(s, i + 1), LAMBDA j :
                    IF peek(s, j) = 125 THEN Got("ignored", j + 1)
                    ELSE skip_members(s, j))
          [] OTHER -> Fail)

\* the rest of an array after an item
skip_items(s, i) ==
    bind(skip_ws(s, i), LAMBDA j :
        IF peek(s, j) = 93 THEN Got("ignored", j + 1)
        ELSE IF peek(s, j) # 44 THEN Fail
        ELSE bind(skip_value(s, skip_ws(s, j + 1)), LAMBDA r :
                 IF r.ok THEN skip_items(s, r.pos) ELSE Fail))

\* the members of an object from a key on
skip_members(s, i) ==
    bind(IF peek(s, i) = QUOTE THEN string_body(s, i + 1, <<>>) ELSE Fail, LAMBDA k :
        IF ~k.ok THEN Fail
        ELSE bind(skip_ws(s, k.pos), LAMBDA c :
                 IF peek(s, c) # 58 THEN Fail
                 ELSE bind(skip_value(s, skip_ws(s, c + 1)), LAMBDA v :
                          IF ~v.ok THEN Fail
                          ELSE bind(skip_ws(s, v.pos), LAMBDA j :
                                   IF peek(s, j) = 125 THEN Got("ignored", j + 1)
                                   ELSE IF peek(s, j) # 44 THEN Fail
                                   ELSE skip_members(s, skip_ws(s, j + 1))))))

\* the field a key names, "" for a key that names none
field_of(key) ==
    CASE key = name_ssid -> "ssid"
      [] key = name_password -> "password"
      [] key = name_server -> "server"
      [] key = name_screen_name -> "screen_name"
      [] key = name_screen_width -> "screen_width"
      [] key = name_screen_height -> "screen_height"
      [] key = name_flip_wheel -> "flip_wheel"
      [] key = name_polling_rate -> "polling_rate"
      [] key = name_jiggle_interval -> "jiggle_interval"
      [] key = name_brightness -> "brightness"
      [] key = name_ip_addr -> "ip_addr"
      [] key = name_dns_server -> "dns_server"
      [] key = name_gateway -> "gateway"
      [] key = name_vid -> "vid"
      [] key = name_pid -> "pid"
      [] key = name_manufacturer -> "manufacturer"
      [] key = name_product -> "product"
      [] key = name_serial_number -> "serial_number"
      [] key = name_landing_url -> "landing_url"
      [] key = name_watchdog_timeout -> "watchdog_timeout"
      [] OTHER -> ""

\* the value of field f at index i, read as the type of the field
read_field(f, s, i) ==
    CASE f \in {"ssid", "password", "server", "screen_name", "manufacturer", "product",
                "serial_number", "landing_url"} -> read_string(s, i)
      [] f \in {"screen_width", "screen_height", "polling_rate", "jiggle_interval",
                "vid", "pid"} -> read_unsigned(s, i, U16_MAX)
      [] f = "brightness" -> read_unsigned(s, i, U8_MAX)
      [] f = "watchdog_timeout" -> read_unsigned(s, i, U32_MAX)
      [] f = "flip_wheel" -> read_bool(s, i)
      [] f \in {"ip_addr", "gateway"} -> read_option_string(s, i)
      [] f = "dns_server" -> read_string_array(s, i)
      [] OTHER -> skip_value(s, i)

\* the value of every field that is absent from the JSON text: the default =
\* "..." of the field, else the field of EsparrierConfig::default()
DefaultConfig ==
    [ ssid             |-> <<>>,
      password         |-> <<>>,
      server           |-> <<>>,
      screen_name      |-> <<>>,
      screen_width     |-> SCREEN_WIDTH,
      screen_height    |-> SCREEN_HEIGHT,
      flip_wheel       |-> FALSE,
      polling_rate     |-> POLLING_RATE,
      jiggle_interval  |-> JIGGLE_INTERVAL,
      brightness       |-> BRIGHTNESS,
      ip_addr          |-> <<>>,
      dns_server       |-> <<>>,
      gateway          |-> <<>>,
      vid              |-> USB_VID,
      pid              |-> USB_PID,
      manufacturer     |-> USB_MANUFACTURER,
      product          |-> USB_PRODUCT,
      serial_number    |-> USB_SERIAL_NUMBER,
      landing_url      |-> LANDING_URL,
      watchdog_timeout |-> WATCHDOG_TIMEOUT ]

\* the member that stands at index i, a key, a colon and the value of the
\* field the key names, with what follows it: the closing brace (last), or a
\* comma and pos at the next key; a field of seen comes a second time: error
read_member(s, i, seen) ==
    bind(read_string(s, i), LAMBDA k :
        IF ~k.ok THEN Fail
        ELSE bind(<< skip_ws(s, k.pos), field_of(k.val) >>, LAMBDA cf :
                 IF peek(s, cf[1]) # 58 \/ cf[2] \in seen THEN Fail
                 ELSE bind(read_field(cf[2], s, skip_ws(s, cf[1] + 1)), LAMBDA v :
                          IF ~v.ok THEN Fail
                          ELSE bind(skip_ws(s, v.pos), LAMBDA j :
                                   IF peek(s, j) = 125
                                   THEN [ok |-> TRUE, field |-> cf[2], val |-> v.val,
                                         last |-> TRUE, pos |-> j + 1]
                                   ELSE IF peek(s, j) # 44 THEN Fail
                                   ELSE [ok |-> TRUE, field |-> cf[2], val |-> v.val,
                                         last |-> FALSE, pos |-> skip_ws(s, j + 1)]))))

RECURSIVE read_members(_, _, _, _)
\* the members of the object from a key on: c holds the fields read so far and
\* seen their names
read_members(s, i, c, seen) ==
    bind(<< read_member(s, i, seen), c, seen >>, LAMBDA m :
        IF ~m[1].ok THEN Fail
        ELSE IF m[1].field = ""
        THEN (IF m[1].last THEN Got(m[2], m[1].pos)
              ELSE read_members(s, m[1].pos, m[2], m[3]))
        ELSE IF m[1].last THEN Got([m[2] EXCEPT ![m[1].field] = m[1].val], m[1].pos)
        ELSE read_members(s, m[1].pos, [m[2] EXCEPT ![m[1].field] = m[1].val],
                          m[3] \cup {m[1].field}))

\* serde_json::from_slice::<EsparrierConfig>(&data), for data that holds a JSON
\* object: the object, then nothing but white space (the form of a struct as a
\* JSON array is not read: Fail)
from_slice(data) ==
    bind(data, LAMBDA s :
        bind(skip_ws(s, 1), LAMBDA i :
            IF peek(s, i) # 123 THEN Fail
            ELSE bind(skip_ws(s, i + 1), LAMBDA j :
                     bind(IF peek(s, j) = 125 THEN Got(DefaultConfig, j + 1)
                          ELSE read_members(s, j, DefaultConfig, {}), LAMBDA r :
                              IF r.ok /\ skip_ws(s, r.pos) = Len(s) + 1 THEN r ELSE Fail))))

\* "x" repeated n times
xs(n) == [i \in 1..n |-> 120]

\* ssid "wifi", password "pw", server "10.0.0.2:24800", screen_name "SAW",
\* 800 x 600, every other field at its default
BaseConfig ==
    [ ssid             |-> << 119, 105, 102, 105 >>,
      password         |-> << 112, 119 >>,
      server           |-> << 49, 48, 46, 48, 46, 48, 46, 50, 58, 50, 52, 56, 48, 48 >>,
      screen_name      |-> << 83, 65, 87 >>,
      screen_width     |-> 800,
      screen_height    |-> 600,
      flip_wheel       |-> REVERSED_WHEEL,
      polling_rate     |-> POLLING_RATE,
      jiggle_interval  |-> JIGGLE_INTERVAL,
      brightness       |-> BRIGHTNESS,
      ip_addr          |-> <<>>,
      dns_server       |-> <<>>,
      gateway          |-> <<>>,
      vid              |-> USB_VID,
      pid              |-> USB_PID,
      manufacturer     |-> USB_MANUFACTURER,
      product          |-> USB_PRODUCT,
      serial_number    |-> USB_SERIAL_NUMBER,
      landing_url      |-> LANDING_URL,
      watchdog_timeout |-> WATCHDOG_TIMEOUT ]

\* a configuration with the optional fields set and a name that needs escaping:
\* screen_name a, quote, b, backslash, c; ip_addr "10.0.0.7/24", dns_server ["8.8.8.8", "1.1.1.1"],
\* gateway "10.0.0.1"
FullConfig ==
    [BaseConfig EXCEPT
        !.screen_name = << 97, 34, 98, 92, 99 >>,
        !.flip_wheel = TRUE,
        !.polling_rate = 125,
        !.ip_addr = << << 49, 48, 46, 48, 46, 48, 46, 55, 47, 50, 52 >> >>,
        !.dns_server = << << 56, 46, 56, 46, 56, 46, 56 >>, << 49, 46, 49, 46, 49, 46, 49 >> >>,
        !.gateway = << << 49, 48, 46, 48, 46, 48, 46, 49 >> >>,
        !.pid = 4,
        !.watchdog_timeout = 30]

\* a configuration with n DNS servers "1.1.1.1"
ManyDnsConfig(n) == [BaseConfig EXCEPT !.dns_server = [i \in 1..n |-> << 49, 46, 49, 46, 49, 46, 49 >>]]

\* the configurations validate accepts: their JSON takes 151, 192, 193, 283
\* and 16326 bytes
ValidConfigs ==
    << BaseConfig,
       [BaseConfig EXCEPT !.screen_name = xs(44)],
       [BaseConfig EXCEPT !.screen_name = xs(45)],
       FullConfig,
       ManyDnsConfig(1616) >>

\* configurations validate rejects, one for each kind of check
InvalidConfigs ==
    << [BaseConfig EXCEPT !.ssid = <<>>],
       [BaseConfig EXCEPT !.ssid = xs(33)],
       [BaseConfig EXCEPT !.password = <<>>],
       [BaseConfig EXCEPT !.server = << 110, 111, 116, 45, 97, 110, 45, 101, 110, 100, 112, 111, 105, 110, 116 >>],
       [BaseConfig EXCEPT !.screen_width = 0],
       [BaseConfig EXCEPT !.screen_height = 33000],
       [BaseConfig EXCEPT !.brightness = 101],
       [BaseConfig EXCEPT !.ip_addr = << << 49, 48, 46, 48, 46, 48, 46, 49 >> >>],
       [BaseConfig EXCEPT !.ip_addr = << << 49, 48, 46, 48, 46, 48, 46, 49, 47, 97, 98, 99 >> >>],
       [BaseConfig EXCEPT !.dns_server = << << 56, 46, 56, 46, 56, 46, 56 >>, << 49, 46, 50, 46, 51 >> >>],
       [BaseConfig EXCEPT !.gateway = << << 49, 48, 46, 48, 46, 48, 46, 50, 53, 54 >> >>],
       [BaseConfig EXCEPT !.product = <<>>],
       [BaseConfig EXCEPT !.landing_url = xs(256)] >>

\* set_config is called with Configs[k] for some k
Configs == ValidConfigs \o InvalidConfigs


----------------------------------------------------------------------------
(* The environment: inputs of the calls and packets the device may send    *)

\* feature_flags of the firmwares considered: Ota only, everything but Ota
DeviceFlags == {64, 135}

\* the firmware images passed to upload_ota are prefixes of one byte pattern:
\* Firmware(n) is the image of n bytes, and a call is given one of them by its n
FirmwareByte(i) == (i * 37 + 11) % 256
Firmware(n) == [i \in 1..n |-> FirmwareByte(i - 1)]

FirmwareSizes ==
    {0, 1, PACKET_SIZE, PACKET_SIZE + 1, 8000, MAX_FIRMWARE_SIZE + 1}
        \cup {k * CHUNK_SIZE : k \in 1..MaxChunks}
        \cup {k * CHUNK_SIZE + 1 : k \in 1..(MaxChunks - 1)}

OtaErrorCodes == {97, 110, 105, 119, 99, 102, 115, 112, 122}

\* 'e' responses: well formed ones, and ones parse_ota_error cannot decode
ErrorResponses ==
    {<< b_e, b_O, c >> : c \in OtaErrorCodes}
        \cup {<< b_e >>, << b_e, b_O >>, << b_e, 88, 99 >>}

\* what the device may answer to OtaStart
StartResponses ==
    {<<>>, << b_o >>, << b_o, 0 >>, << b_P >>, << b_C >>, << 120 >>} \cup ErrorResponses

\* what the device may answer to a chunk
AckResponses ==
    {<<>>, << b_o >>, << b_C >>, << 120 >>, << b_P >>,
     << b_P >> \o u32_to_le_bytes(as_u32(CHUNK_SIZE)) \o u32_to_le_bytes(as_u32(8000))}
        \cup ErrorResponses

\* a GetState response of the current 14-byte layout
StatePacket(flags, connected, active, awake, model) ==
    << b_s, 1, 2, 3, flags, 192, 168, 1, 42, 24, connected, active, awake, model >>

ModelIds == {0, 1, 2, 3, 4, 5, 6, 7, 8, 254, 255}

StatePackets(flags) ==
    {StatePacket(flags, c, a, k, m) : c \in {0, 1}, a \in {0, 2}, k \in {0, 255}, m \in ModelIds}

\* what the device may answer to GetState: its state, the same cut short (older
\* firmwares) or followed by more bytes, or a packet with another opcode
StateResponses(flags) ==
    LET full == StatePacket(flags, 1, 0, 1, 6)
    IN  StatePackets(flags)
            \cup {full}
            \cup {Slice(full, 0, n) : n \in {0, 1, 12, 13}}
            \cup {full \o << 0, 0 >>, [full EXCEPT ![1] = b_o], << b_o >>}

----------------------------------------------------------------------------
(* Transport                                                               *)

\* Esparrier::write: the assert on the length, then submit on ep_out
write_asserts(data) == Len(data) <= 64
write(data) == out' = Append(out, data)

\* Esparrier::read: the packet delivered on ep_in
read(packet) == inp' = Append(inp, packet) /\ UNCHANGED failed

\* the command returns r
Return(r) == pc' = "done" /\ ret' = r

\* Esparrier::read: completion.status? with a failure status
read_failed == Return(Err(TransferFailed)) /\ failed' = failed + 1

\* WriteThen submitting the same data once more after a first failure
WriteThen_retrying(data, next) ==
    IF ~write_asserts(data)
    THEN Return(Panic) /\ UNCHANGED <<out, failed>>
    ELSE /\ write(data)
         /\ \E status \in {"Ok", "Err"} :
               IF status = "Ok"
               THEN pc' = next /\ UNCHANGED <<ret, failed>>
               ELSE IF failed = 0
                    THEN UNCHANGED <<pc, ret>> /\ failed' = failed + 1
                    ELSE Return(Err(TransferFailed)) /\ failed' = failed + 1

\* one awaited write inside a command: the assert, the submit, and `?` on the
\* completion status; on success the command goes on at `next`
WriteThen(data, next) ==
    IF ~write_asserts(data)
    THEN Return(Panic) /\ UNCHANGED <<out, failed>>
    ELSE /\ write(data)
         /\ \E status \in {"Ok", "Err"} :
               IF status = "Ok"
               THEN pc' = next /\ UNCHANGED <<ret, failed>>
               ELSE Return(Err(TransferFailed)) /\ failed' = failed + 1

----------------------------------------------------------------------------
(* Commands                                                                *)

SingleInit ==
    /\ pc = "idle"
    /\ failed = 0
    /\ op = "none"
    /\ dev_flags \in DeviceFlags
    /\ firmware = 0
    /\ total_size = 0
    /\ crc = as_u32(0)
    /\ sent = 0
    /\ chunk_no = 0
    /\ packet_no = 0
    /\ progress_callback = FALSE
    /\ ret = NoRet
    /\ out = <<>>
    /\ inp = <<>>
    /\ progress = <<>>
    /\ handle = "open"
    /\ enable = FALSE
    /\ config = 0
    /\ rsize = 0
    /\ rdata = <<>>
    /\ block_no = 0

Init ==
    /\ SingleInit
    /\ NoShared
    /\ NoWait
    /\ NoDetect
    /\ NoConfig
    /\ NoCrc
    /\ NoBus
    /\ NoOpen
    /\ NoHeld

\* the caller starts a new command on the handle it holds
Begin(name) ==
    /\ pc = "idle"
    /\ handle = "open"
    /\ op' = name
    /\ failed' = 0
    /\ out' = <<>>
    /\ inp' = <<>>
    /\ progress' = <<>>
    /\ UNCHANGED <<dev_flags, Foreign>>

OtaLocals == <<firmware, total_size, crc, sent, chunk_no, packet_no, progress_callback>>
CmdLocals == <<enable, config, rsize, rdata, block_no>>

\* get_state: entry
get_state ==
    /\ Begin("get_state")
    /\ pc' = "get_state_write"
    /\ ret' = NoRet
    /\ UNCHANGED <<handle, OtaLocals, CmdLocals>>

\* get_state: self.write(b"s").await?
get_state_write ==
    /\ pc = "get_state_write"
    /\ WriteThen(<< b_s >>, "get_state_read")
    /\ UNCHANGED <<op, handle, CmdLocals, Foreign, dev_flags, inp, progress>>
    /\ UNCHANGED OtaLocals

\* the rest of get_state once read() returned r
get_state_decode(r) ==
    IF Len(r) < 13 \/ r[1] # b_s
    THEN Err(InvalidResponse)
    ELSE IF Len(r) < 14
         THEN Panic        \* from_bytes indexes bytes[13]
         ELSE Ok(EsparrierState_from_bytes(r))

\* get_state: self.read().await? and the decoding of the response
get_state_read ==
    /\ pc = "get_state_read"
    /\ \/ \E r \in StateResponses(dev_flags) :
             /\ read(r)
             /\ Return(get_state_decode(r))
       \/ /\ read_failed
          /\ UNCHANGED inp
    /\ UNCHANGED <<op, handle, CmdLocals, Foreign, dev_flags, out, progress>>
    /\ UNCHANGED OtaLocals

\* upload_ota: entry, up to the first await (size check, crc32, start_cmd)
upload_ota ==
    /\ Begin("upload_ota")
    /\ \E n \in FirmwareSizes :
          /\ firmware' = n
          /\ total_size' = n          \* firmware.len()
          /\ IF invalid_firmware_size(n)
             THEN /\ Return(Err(OtaError("Invalid firmware size")))
                  /\ crc' = as_u32(0)
             ELSE /\ crc' = crc32(Firmware(n))
                  /\ pc' = "ota_start_write"
                  /\ ret' = NoRet
    /\ progress_callback' \in BOOLEAN
    /\ sent' = 0
    /\ chunk_no' = 0
    /\ packet_no' = 0
    /\ UNCHANGED <<handle, CmdLocals>>

\* upload_ota: self.write(&start_cmd).await?
ota_start_write ==
    /\ pc = "ota_start_write"
    /\ WriteThen(start_cmd(total_size, crc), "ota_start_read")
    /\ UNCHANGED <<op, handle, CmdLocals, Foreign, dev_flags, inp, progress>>
    /\ UNCHANGED OtaLocals

\* the end of the loop taken for success
ota_after_chunks_ok == Ok("unit")

\* after the loop over the chunks: all data sent and no OtaComplete seen
ota_after_chunks == Err(OtaError("OTA did not complete as expected"))

\* what upload_ota does with the response r to OtaStart: "go on" or the error
ota_start_decode(r) ==
    IF Len(r) = 0 THEN Err(InvalidResponse)
    ELSE IF r[1] = b_e THEN Err(parse_ota_error(r))
    ELSE IF r[1] # b_o THEN Err(InvalidResponse)
    ELSE NoRet

\* upload_ota: the read after OtaStart and the checks on it
ota_start_read ==
    /\ pc = "ota_start_read"
    /\ \/ \E r \in StartResponses :
             /\ read(r)
             /\ IF ota_start_decode(r) # NoRet
                THEN Return(ota_start_decode(r))
                ELSE IF chunks_count(whole(total_size), CHUNK_SIZE) > 0
                     THEN pc' = "ota_header_write" /\ UNCHANGED ret
                     ELSE Return(ota_after_chunks)
       \/ /\ read_failed
          /\ UNCHANGED inp
    /\ UNCHANGED <<op, handle, CmdLocals, Foreign, dev_flags, out, progress>>
    /\ UNCHANGED OtaLocals

\* upload_ota: the OtaData header of the chunk the iterator is at
ota_header_write ==
    /\ pc = "ota_header_write"
    /\ LET chunk == chunks_item(whole(total_size), CHUNK_SIZE, chunk_no)
       IN  WriteThen(data_header(slice_len(chunk)), "ota_packet_write")
    /\ packet_no' = 0
    /\ UNCHANGED <<op, handle, CmdLocals, Foreign, dev_flags, inp, progress>>
    /\ UNCHANGED <<firmware, total_size, crc, sent, chunk_no, progress_callback>>

\* the callback given its two arguments in the other order
call_progress_swapped(cb, log, s, total) == IF cb THEN Append(log, << total, s >>) ELSE log

\* cb(sent, total_size), when a callback was passed
call_progress(cb, log, s, total) == IF cb THEN Append(log, << s, total >>) ELSE log

\* upload_ota: one data packet; after the last one of the chunk, sent += chunk_len
\* and the progress callback
ota_packet_write ==
    /\ pc = "ota_packet_write"
    /\ LET chunk       == chunks_item(whole(total_size), CHUNK_SIZE, chunk_no)
           packet_data == chunks_item(chunk, PACKET_SIZE, packet_no)
           last        == packet_no + 1 >= chunks_count(chunk, PACKET_SIZE)
       IN  /\ WriteThen(padded_packet(slice_bytes(Firmware(firmware), packet_data)),
                        IF last THEN "ota_ack_read" ELSE "ota_packet_write")
           /\ IF pc' = "done"
              THEN UNCHANGED <<packet_no, sent, progress>>
              ELSE IF last
                   THEN /\ sent' = sent + slice_len(chunk)
                        /\ progress' = call_progress(progress_callback, progress,
                                                     sent + slice_len(chunk), total_size)
                        /\ UNCHANGED packet_no
                   ELSE /\ packet_no' = packet_no + 1
                        /\ UNCHANGED <<sent, progress>>
    /\ UNCHANGED <<op, handle, CmdLocals, Foreign, dev_flags, inp>>
    /\ UNCHANGED <<firmware, total_size, crc, chunk_no, progress_callback>>

\* ota_ack_decode going on to the next chunk after any response that is not
\* 'C' or 'e'
ota_ack_decode_any_goes_on(r) ==
    IF Len(r) = 0 THEN NoRet
    ELSE CASE r[1] = b_C -> Ok("unit")
           [] r[1] = b_e -> Err(parse_ota_error(r))
           [] OTHER      -> NoRet

\* ota_ack_decode with 'C' taken for one more acknowledgement
ota_ack_decode_no_complete(r) ==
    IF Len(r) = 0 THEN Err(InvalidResponse)
    ELSE CASE r[1] \in {b_P, b_C, b_o} -> NoRet
           [] r[1] = b_e -> Err(parse_ota_error(r))
           [] OTHER      -> Err(InvalidResponse)

\* what upload_ota does with the response r to a chunk: "go on" or the result
ota_ack_decode(r) ==
    IF Len(r) = 0 THEN Err(InvalidResponse)
    ELSE CASE r[1] = b_P -> NoRet
           [] r[1] = b_C -> Ok("unit")
           [] r[1] = b_o -> NoRet
           [] r[1] = b_e -> Err(parse_ota_error(r))
           [] OTHER      -> Err(InvalidResponse)

\* upload_ota: the read after a chunk, the match on it, and the step of the
\* chunks iterator; after the last chunk the call fails
ota_ack_read ==
    /\ pc = "ota_ack_read"
    /\ \/ \E r \in AckResponses :
             /\ read(r)
             /\ IF ota_ack_decode(r) # NoRet
                THEN Return(ota_ack_decode(r)) /\ UNCHANGED chunk_no
                ELSE IF chunk_no + 1 < chunks_count(whole(total_size), CHUNK_SIZE)
                     THEN /\ chunk_no' = chunk_no + 1
                          /\ pc' = "ota_header_write"
                          /\ UNCHANGED ret
                     ELSE /\ Return(ota_after_chunks)
                          /\ UNCHANGED chunk_no
       \/ /\ read_failed
          /\ UNCHANGED <<inp, chunk_no>>
    /\ UNCHANGED <<op, handle, CmdLocals, Foreign, dev_flags, out, progress>>
    /\ UNCHANGED <<firmware, total_size, crc, sent, packet_no, progress_callback>>

----------------------------------------------------------------------------
(* Commands answered with 'o'                                              *)

\* what the device may answer to a command that expects 'o'
OkResponses ==
    {<<>>, << b_o >>, << b_o, 0 >>, << b_o, b_o >>, << 0, b_o >>, << b_e >>,
     << b_e, b_O, 110 >>, << b_C >>, << 120 >>}

\* the check on the response accepting any response that begins with 'o'
expect_ok_first_byte(r) ==
    IF Len(r) = 0 \/ r[1] # b_o THEN Err(InvalidResponse) ELSE Ok("unit")

\* if result.len() != 1 || result[0] != b'o' { Err(InvalidResponse) } else { Ok(()) }
expect_ok(r) ==
    IF Len(r) # 1 \/ r[1] # b_o THEN Err(InvalidResponse) ELSE Ok("unit")

\* the write of the one request packet of a command, at position `at`
request_write(at, packet, next) ==
    /\ pc = at
    /\ WriteThen(packet, next)
    /\ UNCHANGED <<op, handle, CmdLocals, Foreign, dev_flags, inp, progress>>
    /\ UNCHANGED OtaLocals

\* the read of the 'o' response of a command, at position `at`, and its check
ok_read(at) ==
    /\ pc = at
    /\ \/ \E r \in OkResponses :
             /\ read(r)
             /\ Return(expect_ok(r))
       \/ /\ read_failed
          /\ UNCHANGED inp
    /\ UNCHANGED <<op, handle, CmdLocals, Foreign, dev_flags, out, progress>>
    /\ UNCHANGED OtaLocals

\* commit_config taking &self instead of self
commit_config_borrowed ==
    /\ Begin("commit_config")
    /\ pc' = "commit_config_write"
    /\ ret' = NoRet
    /\ UNCHANGED <<handle, OtaLocals, CmdLocals>>

\* commit_config(self): entry; the handle is moved into the call
commit_config ==
    /\ Begin("commit_config")
    /\ handle' = "consumed"
    /\ pc' = "commit_config_write"
    /\ ret' = NoRet
    /\ UNCHANGED <<OtaLocals, CmdLocals>>

commit_config_write == request_write("commit_config_write", << b_c >>, "commit_config_read")
commit_config_read == ok_read("commit_config_read")

\* reboot_device(self): entry; the handle is moved into the call
reboot_device ==
    /\ Begin("reboot_device")
    /\ handle' = "consumed"
    /\ pc' = "reboot_device_write"
    /\ ret' = NoRet
    /\ UNCHANGED <<OtaLocals, CmdLocals>>

reboot_device_write == request_write("reboot_device_write", << b_b >>, "reboot_device_read")
reboot_device_read == ok_read("reboot_device_read")

\* `enable as u8`
bool_as_u8(b) == IF b THEN 1 ELSE 0

\* keep_awake(&self, enable): entry
keep_awake ==
    /\ Begin("keep_awake")
    /\ enable' \in BOOLEAN
    /\ pc' = "keep_awake_write"
    /\ ret' = NoRet
    /\ UNCHANGED <<handle, OtaLocals, config, rsize, rdata, block_no>>

keep_awake_write ==
    request_write("keep_awake_write", << b_k, bool_as_u8(enable) >>, "keep_awake_read")
keep_awake_read == ok_read("keep_awake_read")

\* abort_ota(&self): entry
abort_ota ==
    /\ Begin("abort_ota")
    /\ pc' = "abort_ota_write"
    /\ ret' = NoRet
    /\ UNCHANGED <<handle, OtaLocals, CmdLocals>>

abort_ota_write == request_write("abort_ota_write", << b_A >>, "abort_ota_read")
abort_ota_read == ok_read("abort_ota_read")

----------------------------------------------------------------------------
(* set_config                                                              *)

\* let data = serde_json::to_vec(&config), for each configuration of Configs
ConfigData == [k \in 1..Len(Configs) |-> to_vec(Configs[k])]

\* the header with the number of blocks the division rounding down gives
write_config_header_floor(len) == << b_w, as_u8(len \div PACKET_SIZE) >>

\* [b'w', blocks.len() as u8] for data of len bytes
write_config_header(len) == << b_w, as_u8(chunks_count(whole(len), PACKET_SIZE)) >>

\* set_config(&self, config): entry, up to the first await (validate, to_vec,
\* chunks); to_vec does not fail on an EsparrierConfig
set_config ==
    /\ Begin("set_config")
    /\ \E k \in 1..Len(Configs) :
          /\ config' = k
          /\ IF validate(Configs[k]).kind = "Err"
             THEN Return(validate(Configs[k]))
             ELSE pc' = "set_config_header_write" /\ ret' = NoRet
    /\ block_no' = 0
    /\ UNCHANGED <<handle, OtaLocals, enable, rsize, rdata>>

\* set_config: self.write(&[b'w', blocks.len() as u8]).await?
set_config_header_write ==
    /\ pc = "set_config_header_write"
    /\ LET len == Len(ConfigData[config])
       IN  WriteThen(write_config_header(len),
                     IF chunks_count(whole(len), PACKET_SIZE) > 0
                     THEN "set_config_block_write" ELSE "set_config_read")
    /\ UNCHANGED <<op, handle, CmdLocals, Foreign, dev_flags, inp, progress>>
    /\ UNCHANGED OtaLocals

\* set_config: self.write(block).await? for the block the loop is at
set_config_block_write ==
    /\ pc = "set_config_block_write"
    /\ LET blocks == whole(Len(ConfigData[config]))
           block  == chunks_item(blocks, PACKET_SIZE, block_no)
           last   == block_no + 1 >= chunks_count(blocks, PACKET_SIZE)
       IN  /\ WriteThen(slice_bytes(ConfigData[config], block),
                        IF last THEN "set_config_read" ELSE "set_config_block_write")
           /\ block_no' = IF pc' = "set_config_block_write" THEN block_no + 1 ELSE block_no
    /\ UNCHANGED <<op, handle, Foreign, dev_flags, inp, progress>>
    /\ UNCHANGED <<OtaLocals, enable, config, rsize, rdata>>

set_config_read == ok_read("set_config_read")

----------------------------------------------------------------------------
(* get_config                                                              *)

FormatError(msg) == [variant |-> "FormatError", msg |-> msg]

\* what the device may answer to ReadConfig: a header announcing 0..MaxBlocks
\* blocks, and packets that are no header
ConfigHeaders ==
    {<< b_r, n >> : n \in 0..MaxBlocks}
        \cup {<<>>, << b_r >>, << b_r, 2, 0 >>, << b_s, 2 >>, << b_o >>}

\* the two blocks of a configuration of 96 bytes, the second one filled up with
\* zeros:
\* {"ssid":"wifi","server":"10.0.0.2:24800","screen_name":"SAW","screen_width":800,"brightness":10}
ConfigBlockA ==
    << 123, 34, 115, 115, 105, 100, 34, 58, 34, 119, 105, 102, 105, 34, 44, 34, 115, 101, 114, 118, 101, 114, 34, 58, 34, 49, 48, 46, 48, 46, 48, 46, 50, 58, 50, 52, 56, 48, 48, 34, 44, 34, 115, 99, 114, 101, 101, 110, 95, 110, 97, 109, 101, 34, 58, 34, 83, 65, 87, 34, 44, 34, 115, 99 >>
ConfigBlockB ==
    << 114, 101, 101, 110, 95, 119, 105, 100, 116, 104, 34, 58, 56, 48, 48, 44, 34, 98, 114, 105, 103, 104, 116, 110, 101, 115, 115, 34, 58, 49, 48, 125, 0, 0, 0, 0, 0, 0, 0, 0, 0, 0, 0, 0, 0, 0, 0, 0, 0, 0, 0, 0, 0, 0, 0, 0, 0, 0, 0, 0, 0, 0, 0, 0 >>

\* {"ssid":"a", 0xFF "pid":4 0xF5 } 0x00 0x00
ConfigBlockSentinels ==
    << 123, 34, 115, 115, 105, 100, 34, 58, 34, 97, 34, 44, 255, 34, 112, 105, 100, 34, 58, 52, 245, 125, 0, 0 >>

\* {"ssid":    (the text stops short)
ConfigBlockShort == << 123, 34, 115, 115, 105, 100, 34, 58 >>

\* {"brightness":300} 0x00
ConfigBlockRange == << 123, 34, 98, 114, 105, 103, 104, 116, 110, 101, 115, 115, 34, 58, 51, 48, 48, 125, 0 >>

\* {"ssid":" 0xF4 "}
ConfigBlockF4 == << 123, 34, 115, 115, 105, 100, 34, 58, 34, 244, 34, 125 >>

\* what the device may send as a block
ConfigBlocks ==
    {ConfigBlockA, ConfigBlockB, ConfigBlockSentinels, ConfigBlockShort, ConfigBlockRange,
     ConfigBlockF4, <<>>}

\* result.strip_suffix(&[0]).unwrap_or(&result)
strip_suffix_0(r) ==
    IF Len(r) >= 1 /\ r[Len(r)] = 0 THEN SubSeq(r, 1, Len(r) - 1) ELSE r

\* retain keeping every byte but 0
retain_nonzero(d) == SelectSeq(d, LAMBDA b : b # 0)

\* data.retain(|&b| (b != 0) && (b <= 0xF4))
retain(d) == SelectSeq(d, LAMBDA b : (b # 0) /\ (b <= 244))

\* the end of get_config: retain, from_slice, map_err
get_config_parse(d) ==
    LET r == from_slice(retain(d))
    IN  IF r.ok THEN Ok(r.val) ELSE Err(FormatError("Invalid JSON format"))

\* get_config(&self): entry
get_config ==
    /\ Begin("get_config")
    /\ pc' = "get_config_write"
    /\ ret' = NoRet
    /\ UNCHANGED <<handle, OtaLocals, CmdLocals>>

\* get_config: self.write(b"r").await?
get_config_write == request_write("get_config_write", << b_r >>, "get_config_header_read")

\* get_config: the read of the header ['r', num_blocks] and its check; with no
\* block announced the loop is skipped
get_config_header_read ==
    /\ pc = "get_config_header_read"
    /\ \/ \E r \in ConfigHeaders :
             /\ read(r)
             /\ IF Len(r) # 2 \/ r[1] # b_r
                THEN Return(Err(InvalidResponse)) /\ UNCHANGED rsize
                ELSE /\ rsize' = r[2]
                     /\ IF r[2] > 0
                        THEN pc' = "get_config_block_read" /\ UNCHANGED ret
                        ELSE Return(get_config_parse(<<>>))
       \/ /\ read_failed
          /\ UNCHANGED <<inp, rsize>>
    /\ rdata' = <<>>
    /\ block_no' = 0
    /\ UNCHANGED <<op, handle, Foreign, dev_flags, out, progress>>
    /\ UNCHANGED <<OtaLocals, enable, config>>

\* get_config: one pass of the loop (read, strip_suffix, extend_from_slice);
\* after the last block, the rest of the function
get_config_block_read ==
    /\ pc = "get_config_block_read"
    /\ \/ \E r \in ConfigBlocks :
             /\ read(r)
             /\ rdata' = rdata \o strip_suffix_0(r)
             /\ IF block_no + 1 < rsize
                THEN /\ block_no' = block_no + 1
                     /\ UNCHANGED <<pc, ret>>
                ELSE /\ Return(get_config_parse(rdata \o strip_suffix_0(r)))
                     /\ UNCHANGED block_no
       \/ /\ read_failed
          /\ UNCHANGED <<inp, rdata, block_no>>
    /\ UNCHANGED <<op, handle, Foreign, dev_flags, out, progress>>
    /\ UNCHANGED <<OtaLocals, enable, config, rsize>>

----------------------------------------------------------------------------
(* get_ota_progress                                                        *)

\* u32::from_le_bytes of the four bytes r[i..i+4] (0-based), as << low half, high half >>
u32_from_le_bytes(r, i) == << r[i + 1] + 256 * r[i + 2], r[i + 3] + 256 * r[i + 4] >>

\* what the device may answer to OtaProgress: 'P' with received 0x01020304 and
\* total 0x00100000, the same one byte short and two bytes long, 'P' with
\* 0xFFFFFFFF twice, 'P' alone, 'o', 'o' and a byte, 'e' responses, others
ProgressResponses ==
    { << b_P, 4, 3, 2, 1, 0, 0, 16, 0 >>,
      << b_P, 4, 3, 2, 1, 0, 0, 16 >>,
      << b_P, 4, 3, 2, 1, 0, 0, 16, 0, 7, 7 >>,
      << b_P, 255, 255, 255, 255, 255, 255, 255, 255 >>,
      << b_P >>, << b_o >>, << b_o, 1 >>, <<>>, << b_C >>, << b_s, 4, 3, 2, 1, 0, 0, 16, 0 >> }
        \cup ErrorResponses

\* the match with the guard on 'P' testing for more than 9 bytes
get_ota_progress_decode_above_9(r) ==
    IF Len(r) = 0 THEN Err(InvalidResponse)
    ELSE IF r[1] = b_P /\ Len(r) > 9
         THEN Ok(<< << u32_from_le_bytes(r, 1), u32_from_le_bytes(r, 5) >> >>)
    ELSE IF r[1] = b_o THEN Ok(<<>>)
    ELSE IF r[1] = b_e THEN Err(parse_ota_error(r))
    ELSE Err(InvalidResponse)

\* the rest of get_ota_progress once read() returned r; the Option it returns
\* is <<>> for None and << (received, total) >> for Some
get_ota_progress_decode(r) ==
    IF Len(r) = 0 THEN Err(InvalidResponse)
    ELSE IF r[1] = b_P /\ Len(r) >= 9
         THEN Ok(<< << u32_from_le_bytes(r, 1), u32_from_le_bytes(r, 5) >> >>)
    ELSE IF r[1] = b_o THEN Ok(<<>>)
    ELSE IF r[1] = b_e THEN Err(parse_ota_error(r))
    ELSE Err(InvalidResponse)

\* get_ota_progress: entry
get_ota_progress ==
    /\ Begin("get_ota_progress")
    /\ pc' = "get_ota_progress_write"
    /\ ret' = NoRet
    /\ UNCHANGED <<handle, OtaLocals, CmdLocals>>

\* get_ota_progress: self.write(b"P").await?
get_ota_progress_write ==
    request_write("get_ota_progress_write", << b_P >>, "get_ota_progress_read")

\* get_ota_progress: self.read().await? and the decoding of the response
get_ota_progress_read ==
    /\ pc = "get_ota_progress_read"
    /\ \/ \E r \in ProgressResponses :
             /\ read(r)
             /\ Return(get_ota_progress_decode(r))
       \/ /\ read_failed
          /\ UNCHANGED inp
    /\ UNCHANGED <<op, handle, CmdLocals, Foreign, dev_flags, out, progress>>
    /\ UNCHANGED OtaLocals

----------------------------------------------------------------------------

(* The caller between commands                                             *)

\* the caller has the result of the command
Finish ==
    /\ pc = "done"
    /\ pc' = "idle"
    /\ failed' = 0
    /\ op' = "none"
    /\ enable' = FALSE
    /\ config' = 0
    /\ rsize' = 0
    /\ rdata' = <<>>
    /\ block_no' = 0
    /\ ret' = NoRet
    /\ firmware' = 0
    /\ total_size' = 0
    /\ crc' = as_u32(0)
    /\ sent' = 0
    /\ chunk_no' = 0
    /\ packet_no' = 0
    /\ progress_callback' = FALSE
    /\ out' = <<>>
    /\ inp' = <<>>
    /\ progress' = <<>>
    /\ UNCHANGED <<handle, dev_flags, Foreign>>

\* the caller, left without a handle, discovers the device again and gets a new
\* one (the device has restarted, possibly with another firmware)
discover ==
    /\ pc = "idle"
    /\ handle = "consumed"
    /\ handle' = "open"
    /\ dev_flags' \in DeviceFlags
    /\ UNCHANGED <<pc, failed, op, ret, out, inp, progress, OtaLocals, CmdLocals, Foreign>>

Next ==
    \/ get_state
    \/ get_state_write
    \/ get_state_read
    \/ upload_ota
    \/ ota_start_write
    \/ ota_start_read
    \/ ota_header_write
    \/ ota_packet_write
    \/ ota_ack_read
    \/ commit_config
    \/ commit_config_write
    \/ commit_config_read
    \/ reboot_device
    \/ reboot_device_write
    \/ reboot_device_read
    \/ keep_awake
    \/ keep_awake_write
    \/ keep_awake_read
    \/ abort_ota
    \/ abort_ota_write
    \/ abort_ota_read
    \/ set_config
    \/ set_config_header_write
    \/ set_config_block_write
    \/ set_config_read
    \/ get_config
    \/ get_config_write
    \/ get_config_header_read
    \/ get_config_block_read
    \/ get_ota_progress
    \/ get_ota_progress_write
    \/ get_ota_progress_read
    \/ Finish
    \/ discover

Spec == Init /\ [][Next]_vars

----------------------------------------------------------------------------
(* Tasks sharing one handle                                                *)

\* the tasks that hold a reference to the one Esparrier
Tasks == {"a", "b"}

\* the commands the tasks call: task "a" is the one that uploads images
SharedCommands == {"upload_ota", "get_state", "keep_awake"}
commands_of(t) == IF t = "a" THEN SharedCommands ELSE SharedCommands \ {"upload_ota"}

\* one self.write(data).await; `reply` holds the response the device queues
\* once the packet has arrived (none for a packet that does not end a request)
Out(data, reply) == [ep |-> "out", buf |-> data, reply |-> reply]

\* one self.read().await
In == [ep |-> "in", buf |-> <<>>, reply |-> <<>>]

\* upload_ota writing the data packets of the chunk before its header
upload_ota_transfers_data_first(n) ==
    LET fw  == Firmware(n)
        cnt == div_ceil(n, PACKET_SIZE)
        pk(i) == padded_packet(Slice(fw, (i - 1) * PACKET_SIZE, Min(n, i * PACKET_SIZE)))
    IN  << Out(start_cmd(n, crc32(fw)), << << b_o >> >>), In >>
            \o [i \in 1..cnt |-> Out(pk(i), <<>>)]
            \o << Out(data_header(n), << << b_C >> >>), In >>

\* the writes and reads of upload_ota, in program order, for an image of n
\* bytes that fits one chunk; the device answers OtaStart with 'o' and the
\* last data packet of the last chunk with 'C'
upload_ota_transfers(n) ==
    LET fw  == Firmware(n)
        cnt == div_ceil(n, PACKET_SIZE)
        pk(i) == padded_packet(Slice(fw, (i - 1) * PACKET_SIZE, Min(n, i * PACKET_SIZE)))
    IN  << Out(start_cmd(n, crc32(fw)), << << b_o >> >>), In, Out(data_header(n), <<>>) >>
            \o [i \in 1..cnt |-> Out(pk(i), IF i = cnt THEN << << b_C >> >> ELSE <<>>)]
            \o << In >>

\* the image the tasks upload: two packets, the second one padded
SharedFirmware == PACKET_SIZE + 1

\* the writes and reads of a command, in program order
transfers(cmd) ==
    CASE cmd = "upload_ota" -> upload_ota_transfers(SharedFirmware)
      [] cmd = "get_state"  ->
            << Out(<< b_s >>, << StatePacket(FeatureFlag_Ota, 1, 0, 1, 6) >>), In >>
      [] cmd = "keep_awake" -> << Out(<< b_k, bool_as_u8(TRUE) >>, << << b_o >> >>), In >>

\* the same as a table, worked out once
program == [cmd \in SharedCommands |-> transfers(cmd)]

\* upload_ota: the check of the response to OtaStart (NoRet: the call goes on)
upload_ota_start_check(r) ==
    IF Len(r) = 0 THEN Err(InvalidResponse)
    ELSE IF r[1] = b_e THEN Err(parse_ota_error(r))
    ELSE IF r[1] # b_o THEN Err(InvalidResponse)
    ELSE NoRet

\* upload_ota: the match on the response to the last chunk, and the end of the
\* function when the loop is left
upload_ota_last_ack_check(r) ==
    IF Len(r) = 0 THEN Err(InvalidResponse)
    ELSE IF r[1] = b_P \/ r[1] = b_o THEN ota_after_chunks
    ELSE IF r[1] = b_C THEN Ok("unit")
    ELSE IF r[1] = b_e THEN Err(parse_ota_error(r))
    ELSE Err(InvalidResponse)

\* what a command does with the packet r its read at position `step` returned
after_read(cmd, step, r) ==
    CASE cmd = "upload_ota" ->
            IF step = 2 THEN upload_ota_start_check(r) ELSE upload_ota_last_ack_check(r)
      [] cmd = "get_state"  -> get_state_decode(r)
      [] cmd = "keep_awake" -> expect_ok(r)

\* a task that runs no command
IdleTask == [cmd |-> "none", call |-> 0, step |-> 0, at |-> "idle", got |-> <<>>, ret |-> NoRet]

\* the future of a command was dropped
Cancelled == [kind |-> "Cancelled"]

\* the position of the first transfer of an endpoint the bus has not carried
\* out yet (0: none)
first_submitted(pending) ==
    IF \E i \in 1..Len(pending) : ~pending[i].done
    THEN CHOOSE i \in 1..Len(pending) :
            ~pending[i].done /\ \A j \in 1..(i - 1) : pending[j].done
    ELSE 0

InitShared ==
    /\ SingleInit
    /\ dev_flags = FeatureFlag_Ota
    /\ NoWait
    /\ NoDetect
    /\ NoConfig
    /\ NoCrc
    /\ NoBus
    /\ NoOpen
    /\ NoHeld
    /\ tasks = [t \in Tasks |-> IdleTask]
    /\ ep_out = IdleEndpoint
    /\ ep_in = IdleEndpoint
    /\ bus = <<>>
    /\ resp = <<>>
    /\ calls = 0
    /\ cancelled = {}

\* a task calls a command on the shared handle
call(t, cmd) ==
    /\ tasks[t].at = "idle"
    /\ calls < MaxCalls
    /\ calls' = calls + 1
    /\ tasks' = [tasks EXCEPT ![t] = [cmd |-> cmd, call |-> calls + 1, step |-> 1,
                                      at |-> "ready", got |-> <<>>, ret |-> NoRet]]
    /\ UNCHANGED <<ep_out, ep_in, bus, resp, cancelled, Single, WaitVars, OtherVars>>

\* Esparrier::write up to its await: the mutex of ep_out is acquired and the
\* buffer submitted
write_submit(t) ==
    /\ tasks[t].at = "ready"
    /\ LET s == program[tasks[t].cmd][tasks[t].step]
       IN  /\ s.ep = "out"
           /\ write_asserts(s.buf)
           /\ ep_out.holder = "none"
           /\ ep_out' = [holder  |-> t,
                         pending |-> Append(ep_out.pending,
                                            [by |-> << t, tasks[t].call >>, buf |-> s.buf,
                                             reply |-> s.reply, done |-> FALSE])]
    /\ tasks' = [tasks EXCEPT ![t].at = "await"]
    /\ UNCHANGED <<ep_in, bus, resp, calls, cancelled, Single, WaitVars, OtherVars>>

\* the host controller sends the oldest submitted OUT transfer; the device
\* queues its response when the packet ends a request
out_transfer ==
    LET i == first_submitted(ep_out.pending)
    IN  /\ i > 0
        /\ ep_out' = [ep_out EXCEPT !.pending[i].done = TRUE]
        /\ bus' = Append(bus, [by |-> ep_out.pending[i].by, buf |-> ep_out.pending[i].buf])
        /\ resp' = resp \o [j \in 1..Len(ep_out.pending[i].reply) |->
                               [for |-> ep_out.pending[i].by,
                                buf |-> ep_out.pending[i].reply[j]]]
        /\ UNCHANGED <<tasks, ep_in, calls, cancelled, Single, WaitVars, OtherVars>>

\* Esparrier::write after its await: next_complete returned the oldest
\* completion of ep_out, the guard is dropped, the command goes on
write_complete(t) ==
    /\ tasks[t].at = "await"
    /\ program[tasks[t].cmd][tasks[t].step].ep = "out"
    /\ ep_out.holder = t
    /\ ep_out.pending # <<>>
    /\ Head(ep_out.pending).done
    /\ ep_out' = [holder |-> "none", pending |-> Tail(ep_out.pending)]
    /\ tasks' = [tasks EXCEPT ![t].at = "ready", ![t].step = @ + 1]
    /\ UNCHANGED <<ep_in, bus, resp, calls, cancelled, Single, WaitVars, OtherVars>>

\* Esparrier::read up to its await: the mutex of ep_in is acquired and a
\* buffer submitted
read_submit(t) ==
    /\ tasks[t].at = "ready"
    /\ program[tasks[t].cmd][tasks[t].step].ep = "in"
    /\ ep_in.holder = "none"
    /\ ep_in' = [holder  |-> t,
                 pending |-> Append(ep_in.pending,
                                    [by |-> << t, tasks[t].call >>, buf |-> <<>>,
                                     reply |-> <<>>, done |-> FALSE])]
    /\ tasks' = [tasks EXCEPT ![t].at = "await"]
    /\ UNCHANGED <<ep_out, bus, resp, calls, cancelled, Single, WaitVars, OtherVars>>

\* the oldest submitted IN transfer receives the oldest response the device
\* has queued
in_transfer ==
    LET i == first_submitted(ep_in.pending)
    IN  /\ i > 0
        /\ resp # <<>>
        /\ ep_in' = [ep_in EXCEPT !.pending[i].done = TRUE,
                                  !.pending[i].buf = Head(resp).buf,
                                  !.pending[i].reply = << Head(resp).for >>]
        /\ resp' = Tail(resp)
        /\ UNCHANGED <<tasks, ep_out, bus, calls, cancelled, Single, WaitVars, OtherVars>>

\* Esparrier::read after its await: next_complete returned the oldest
\* completion of ep_in, the guard is dropped, and the command checks the packet
read_complete(t) ==
    /\ tasks[t].at = "await"
    /\ program[tasks[t].cmd][tasks[t].step].ep = "in"
    /\ ep_in.holder = t
    /\ ep_in.pending # <<>>
    /\ Head(ep_in.pending).done
    /\ ep_in' = [holder |-> "none", pending |-> Tail(ep_in.pending)]
    /\ LET c == Head(ep_in.pending)
           r == after_read(tasks[t].cmd, tasks[t].step, c.buf)
           g == Append(tasks[t].got, [for |-> c.reply[1], buf |-> c.buf])
       IN  tasks' = IF r = NoRet
                    THEN [tasks EXCEPT ![t].at = "ready", ![t].step = @ + 1, ![t].got = g]
                    ELSE [tasks EXCEPT ![t].at = "idle", ![t].ret = r, ![t].got = g]
    /\ UNCHANGED <<ep_out, bus, resp, calls, cancelled, Single, WaitVars, OtherVars>>

\* the mutex of an endpoint once the guard a dropped future held is gone
released(ep, t) == IF ep.holder = t THEN [ep EXCEPT !.holder = "none"] ELSE ep

\* dropping the future that also discards what the device has queued
drop_task_draining(t) ==
    /\ tasks[t].at \in {"ready", "await"}
    /\ Cardinality(cancelled) < MaxCancels
    /\ cancelled' = cancelled \cup {[call |-> tasks[t].call, step |-> tasks[t].step, at |-> tasks[t].at]}
    /\ tasks' = [tasks EXCEPT ![t].at = "idle", ![t].ret = Cancelled]
    /\ ep_out' = released(ep_out, t)
    /\ ep_in' = released(ep_in, t)
    /\ resp' = <<>>
    /\ UNCHANGED <<bus, calls, Single, WaitVars, OtherVars>>

\* the future of the command a task runs is dropped at one of its awaits (the
\* lock of write/read or next_complete): a MutexGuard it holds is dropped with
\* it; the transfer it submitted stays with the endpoint, and so does what the
\* device has queued
drop_task(t) ==
    /\ tasks[t].at \in {"ready", "await"}
    /\ Cardinality(cancelled) < MaxCancels
    /\ cancelled' = cancelled \cup {[call |-> tasks[t].call, step |-> tasks[t].step, at |-> tasks[t].at]}
    /\ tasks' = [tasks EXCEPT ![t].at = "idle", ![t].ret = Cancelled]
    /\ ep_out' = released(ep_out, t)
    /\ ep_in' = released(ep_in, t)
    /\ UNCHANGED <<bus, resp, calls, Single, WaitVars, OtherVars>>

NextShared ==
    \/ \E t \in Tasks : \E cmd \in commands_of(t) : call(t, cmd)
    \/ \E t \in Tasks : write_submit(t)
    \/ out_transfer
    \/ \E t \in Tasks : write_complete(t)
    \/ \E t \in Tasks : read_submit(t)
    \/ in_transfer
    \/ \E t \in Tasks : read_complete(t)
    \/ \E t \in Tasks : drop_task(t)

SpecShared == InitShared /\ [][NextShared]_vars

----------------------------------------------------------------------------
(* wait_for_device                                                         *)

\* the devices that can be on the bus, in the order nusb enumerates them
EnumerationOrder == << "kvm1", "hub", "kvm2" >>
Devices == {EnumerationOrder[i] : i \in 1..Len(EnumerationOrder)}

\* the four is_none_or conditions on vid, pid, bus and address, for the
\* arguments of the call
matches_filters(d) == d \in {"kvm1", "kvm2"}

\* Result of try_open_device: Ok, Err(Error::DeviceBusy), any other Err
OpenResults == {"Ok", "DeviceBusy", "Other"}

DeviceNotFound == [variant |-> "DeviceNotFound"]
UsbError == [variant |-> "Usb"]

\* tokio::time::sleep(Duration::from_secs(1))
SLEEP_SECS == 1

Connected(d) == [kind |-> "Connected", dev |-> d]
Disconnected(d) == [kind |-> "Disconnected", dev |-> d]

\* the watcher made only when the scan is over
watching_after_scan == w_pc \in {"watch", "watch_open", "done"} /\ ~w_closed

\* nusb::watch_devices() is the first statement of wait_for_device: hot-plug
\* events are queued for the call from its start until the stream ends
watching == w_pc # "idle" /\ ~w_closed

\* nusb::list_devices(): the devices connected now, in enumeration order
list_devices_now == SelectSeq(EnumerationOrder, LAMBDA d : d \in plugged)

InitWait ==
    /\ SingleInit
    /\ dev_flags = FeatureFlag_Ota
    /\ NoShared
    /\ NoDetect
    /\ NoConfig
    /\ NoCrc
    /\ NoBus
    /\ NoOpen
    /\ NoHeld
    /\ w_pc = "idle"
    /\ w_ret = NoRet
    /\ plugged \in SUBSET Devices
    /\ w_events = <<>>
    /\ w_cursor = 0
    /\ w_closed = FALSE
    /\ w_devices = <<>>
    /\ w_index = 0
    /\ w_log = <<>>
    /\ w_slept = 0
    /\ w_new = {}

WaitEnv == <<plugged, w_events, w_closed, w_new>>
WaitLocals == <<w_devices, w_index, w_cursor, w_log, w_slept>>

\* wait_for_device: entry, with nusb::watch_devices().unwrap()
wait_for_device ==
    /\ w_pc = "idle"
    /\ \/ w_pc' = "list_devices" /\ UNCHANGED <<w_ret, w_closed>>
       \/ w_pc' = "done" /\ w_ret' = Panic /\ UNCHANGED w_closed
    /\ UNCHANGED <<plugged, w_events, w_new, WaitLocals, Single, SharedVars, OtherVars>>

\* let devices: Vec<DeviceInfo> = nusb::list_devices().await?.collect()
list_devices ==
    /\ w_pc = "list_devices"
    /\ \/ /\ w_devices' = list_devices_now
          /\ w_index' = 1
          /\ w_pc' = "scan"
          /\ UNCHANGED w_ret
       \/ /\ w_pc' = "done"
          /\ w_ret' = Err(UsbError)
          /\ UNCHANGED <<w_devices, w_index>>
    /\ UNCHANGED <<WaitEnv, w_cursor, w_log, w_slept, Single, SharedVars, OtherVars>>

\* for d in devices { if <filters> { ... } }: the candidate the loop is at
\* is skipped when it does not match, and the loop ends after the last one
scan ==
    /\ w_pc = "scan"
    /\ IF w_index > Len(w_devices)
       THEN w_pc' = "watch" /\ UNCHANGED w_index
       ELSE IF matches_filters(w_devices[w_index])
            THEN w_pc' = "scan_open" /\ UNCHANGED w_index
            ELSE w_index' = w_index + 1 /\ UNCHANGED w_pc
    /\ UNCHANGED <<WaitEnv, w_ret, w_devices, w_cursor, w_log, w_slept, Single, SharedVars, OtherVars>>

\* what try_open_device can return for a device: Ok only while it is plugged
open_results(d) == IF d \in plugged THEN OpenResults ELSE {"Other"}

\* the match in the scan with DeviceBusy treated as any other error
scan_match_busy_breaks(res) ==
    CASE res = "Ok" -> [pc |-> "done", index |-> w_index]
      [] OTHER      -> [pc |-> "scan", index |-> w_index + 1]

\* the match on the result of try_open_device in the scan: return, sleep and
\* `continue`, or `break` to the next candidate
scan_match(res) ==
    CASE res = "Ok"         -> [pc |-> "done", index |-> w_index]
      [] res = "DeviceBusy" -> [pc |-> "sleep", index |-> w_index]
      [] OTHER              -> [pc |-> "scan", index |-> w_index + 1]

\* loop { match Self::try_open_device(d.clone()).await { ... } }
scan_open ==
    /\ w_pc = "scan_open"
    /\ \E res \in open_results(w_devices[w_index]) :
          /\ res = "DeviceBusy" => w_slept < MaxBusy * SLEEP_SECS
          /\ w_log' = Append(w_log, [dev |-> w_devices[w_index], res |-> res,
                                     phase |-> "scan", at |-> w_index])
          /\ w_pc' = scan_match(res).pc
          /\ w_index' = scan_match(res).index
          /\ w_ret' = IF res = "Ok" THEN Ok(w_devices[w_index]) ELSE w_ret
    /\ UNCHANGED <<WaitEnv, w_devices, w_cursor, w_slept, Single, SharedVars, OtherVars>>

\* tokio::time::sleep(Duration::from_secs(1)).await; continue
sleep ==
    /\ w_pc = "sleep"
    /\ w_slept' = w_slept + SLEEP_SECS
    /\ w_pc' = "scan_open"
    /\ UNCHANGED <<WaitEnv, w_ret, w_devices, w_index, w_cursor, w_log, Single, SharedVars, OtherVars>>

\* while let Some(event) = watch.next().await: the next event, filtered; or
\* the end of the stream and Err(Error::DeviceNotFound)
watch_next ==
    /\ w_pc = "watch"
    /\ IF w_cursor < Len(w_events)
       THEN /\ w_cursor' = w_cursor + 1
            /\ w_pc' = IF /\ w_events[w_cursor + 1].kind = "Connected"
                          /\ matches_filters(w_events[w_cursor + 1].dev)
                       THEN "watch_open" ELSE "watch"
            /\ UNCHANGED w_ret
       ELSE /\ w_closed
            /\ w_pc' = "done"
            /\ w_ret' = Err(DeviceNotFound)
            /\ UNCHANGED w_cursor
    /\ UNCHANGED <<WaitEnv, w_devices, w_index, w_log, w_slept, Single, SharedVars, OtherVars>>

\* match Self::try_open_device(di).await { Ok(dev) => return Ok(dev), Err(_) => continue }
watch_open ==
    /\ w_pc = "watch_open"
    /\ \E res \in open_results(w_events[w_cursor].dev) :
          /\ w_log' = Append(w_log, [dev |-> w_events[w_cursor].dev, res |-> res,
                                     phase |-> "watch", at |-> w_cursor])
          /\ w_pc' = IF res = "Ok" THEN "done" ELSE "watch"
          /\ w_ret' = IF res = "Ok" THEN Ok(w_events[w_cursor].dev) ELSE w_ret
    /\ UNCHANGED <<WaitEnv, w_devices, w_index, w_cursor, w_slept, Single, SharedVars, OtherVars>>

\* a device is connected: an event for the watcher, when there is one
plug(d) ==
    /\ d \notin plugged
    /\ w_pc # "done"
    /\ Len(w_events) < MaxHotplug
    /\ plugged' = plugged \cup {d}
    /\ w_events' = IF watching THEN Append(w_events, Connected(d)) ELSE w_events
    /\ w_new' = IF w_pc # "idle" /\ ~w_closed THEN w_new \cup {d} ELSE w_new
    /\ UNCHANGED <<w_pc, w_ret, w_closed, WaitLocals, Single, SharedVars, OtherVars>>

\* a device is disconnected
unplug(d) ==
    /\ d \in plugged
    /\ w_pc # "done"
    /\ Len(w_events) < MaxHotplug
    /\ plugged' = plugged \ {d}
    /\ w_events' = IF watching THEN Append(w_events, Disconnected(d)) ELSE w_events
    /\ UNCHANGED <<w_pc, w_ret, w_closed, w_new, WaitLocals, Single, SharedVars, OtherVars>>

\* the hot-plug event stream ends
close_watch ==
    /\ w_pc \notin {"idle", "done"}
    /\ ~w_closed
    /\ w_closed' = TRUE
    /\ UNCHANGED <<w_pc, w_ret, plugged, w_events, w_new, WaitLocals, Single, SharedVars, OtherVars>>

NextWait ==
    \/ wait_for_device
    \/ list_devices
    \/ scan
    \/ scan_open
    \/ sleep
    \/ watch_next
    \/ watch_open
    \/ \E d \in Devices : plug(d)
    \/ \E d \in Devices : unplug(d)
    \/ close_watch

SpecWait == InitWait /\ [][NextWait]_vars

----------------------------------------------------------------------------
(* wait_for_device while other processes hold devices                      *)

\* the devices connected stay connected and the event stream stays open; a
\* device whose interface another process has claimed answers DeviceBusy until
\* that process releases it, and then stays free
InitWaitFair ==
    /\ SingleInit
    /\ dev_flags = FeatureFlag_Ota
    /\ NoShared
    /\ NoDetect
    /\ NoConfig
    /\ NoCrc
    /\ NoBus
    /\ NoOpen
    /\ w_pc = "idle"
    /\ w_ret = NoRet
    /\ plugged \in SUBSET Devices
    /\ w_held \in SUBSET {d \in plugged : matches_filters(d)}
    /\ w_events = <<>>
    /\ w_cursor = 0
    /\ w_closed = FALSE
    /\ w_devices = <<>>
    /\ w_index = 0
    /\ w_log = <<>>
    /\ w_slept = 0
    /\ w_new = {}

FairRest == <<Single, SharedVars, DetectVars, ConfigVars, CrcVars, BusVars, OpenVars>>

\* Result of try_open_device on a device: claim_interface fails while another
\* process holds the interface
open_result_held(d) ==
    IF d \notin plugged THEN "Other" ELSE IF d \in w_held THEN "DeviceBusy" ELSE "Ok"

\* the log of the calls of try_open_device, where a call that repeats the
\* last one with the same result is not written again
logged(entry) ==
    IF Len(w_log) >= 1 /\ w_log[Len(w_log)] = entry THEN w_log ELSE Append(w_log, entry)

\* loop { match Self::try_open_device(d.clone()).await { ... } }
scan_open_held ==
    /\ w_pc = "scan_open"
    /\ LET res == open_result_held(w_devices[w_index])
       IN  /\ w_log' = logged([dev |-> w_devices[w_index], res |-> res,
                                phase |-> "scan", at |-> w_index])
           /\ w_pc' = scan_match(res).pc
           /\ w_index' = scan_match(res).index
           /\ w_ret' = IF res = "Ok" THEN Ok(w_devices[w_index]) ELSE w_ret
    /\ UNCHANGED <<WaitEnv, w_held, w_devices, w_cursor, w_slept, FairRest>>

\* tokio::time::sleep(Duration::from_secs(1)).await; continue: the seconds
\* slept are counted up to MaxBusy
sleep_counted ==
    /\ w_pc = "sleep"
    /\ w_slept' = Min(w_slept + SLEEP_SECS, MaxBusy * SLEEP_SECS)
    /\ w_pc' = "scan_open"
    /\ UNCHANGED <<WaitEnv, w_held, w_ret, w_devices, w_index, w_cursor, w_log, FairRest>>

\* match Self::try_open_device(di).await { Ok(dev) => return Ok(dev), Err(_) => continue }
watch_open_held ==
    /\ w_pc = "watch_open"
    /\ LET res == open_result_held(w_events[w_cursor].dev)
       IN  /\ w_log' = Append(w_log, [dev |-> w_events[w_cursor].dev, res |-> res,
                                       phase |-> "watch", at |-> w_cursor])
           /\ w_pc' = IF res = "Ok" THEN "done" ELSE "watch"
           /\ w_ret' = IF res = "Ok" THEN Ok(w_events[w_cursor].dev) ELSE w_ret
    /\ UNCHANGED <<WaitEnv, w_held, w_devices, w_index, w_cursor, w_slept, FairRest>>

\* a device is connected, free or with its interface claimed by another
\* process at once: an event for the watcher, when there is one
connect(d, claimed) ==
    /\ d \notin plugged
    /\ w_pc # "done"
    /\ Len(w_events) < MaxHotplug
    /\ claimed => matches_filters(d)
    /\ plugged' = plugged \cup {d}
    /\ w_held' = IF claimed THEN w_held \cup {d} ELSE w_held
    /\ w_events' = IF watching THEN Append(w_events, Connected(d)) ELSE w_events
    /\ w_new' = IF w_pc # "idle" THEN w_new \cup {d} ELSE w_new
    /\ UNCHANGED <<w_pc, w_ret, w_closed, WaitLocals, FairRest>>

\* the other process releases the interface of a device
release(d) ==
    /\ d \in w_held
    /\ w_pc # "done"
    /\ w_held' = w_held \ {d}
    /\ UNCHANGED <<WaitVars, FairRest>>

NextWaitFair ==
    \/ wait_for_device
    \/ list_devices
    \/ scan
    \/ scan_open_held
    \/ sleep_counted
    \/ watch_next
    \/ watch_open_held
    \/ \E d \in Devices : \E claimed \in BOOLEAN : connect(d, claimed)
    \/ \E d \in Devices : release(d)

\* the task that runs wait_for_device is polled whenever it can go on: each
\* of its steps is taken if it stays possible; nothing makes the other
\* process release a device or a device appear
SpecWaitFair ==
    /\ InitWaitFair
    /\ [][NextWaitFair]_vars
    /\ WF_vars(wait_for_device)
    /\ WF_vars(list_devices)
    /\ WF_vars(scan)
    /\ WF_vars(scan_open_held)
    /\ WF_vars(sleep_counted)
    /\ WF_vars(watch_next)
    /\ WF_vars(watch_open_held)


----------------------------------------------------------------------------
(* auto_detect without wait, and try_open_device                           *)

\* the devices that can be on the bus, in the order nusb::list_devices gives
DetectDevices == << "kvm", "clone", "kvm512", "disk" >>

VENDOR_CLASS == 255       \* 0xFF
VENDOR_SUBCLASS == 13     \* 0x0D
VENDOR_PROTOCOL == 10     \* 0x0A

\* an endpoint descriptor
Endpoint(address, direction, transfer_type, max_packet_size) ==
    [address |-> address, direction |-> direction, transfer_type |-> transfer_type,
     max_packet_size |-> max_packet_size]

\* an interface alt setting of the active configuration
AltSetting(number, class, subclass, protocol, endpoints) ==
    [interface_number |-> number, class |-> class, subclass |-> subclass,
     protocol |-> protocol, endpoints |-> endpoints]

\* a keyboard interface, and the vendor interface with bulk endpoints of a
\* max packet size
HidInterface == AltSetting(0, 3, 1, 1, << Endpoint(130, "In", "Interrupt", 8) >>)
VendorInterface(max_packet_size) ==
    AltSetting(1, VENDOR_CLASS, VENDOR_SUBCLASS, VENDOR_PROTOCOL,
               << Endpoint(129, "In", "Bulk", max_packet_size),
                  Endpoint(1, "Out", "Bulk", max_packet_size) >>)

\* DeviceInfo and the descriptors of each device: the KVM at bus "03" address
\* 5; a device with other ids and the same vendor interface; a KVM whose bulk
\* endpoints have a max packet size of 512; a mass storage device; a device
\* whose vendor interface has an IN endpoint only; a device whose vendor
\* interface has two alt settings, the first with two endpoints each way
usb ==
    [d \in {"kvm", "clone", "kvm512", "disk", "half", "dual"} |->
        CASE d = "kvm" ->
                [vendor_id |-> USB_VID, product_id |-> USB_PID,
                 bus_id |-> << 48, 51 >>, device_address |-> 5,
                 alt_settings |-> << HidInterface, VendorInterface(64) >>]
          [] d = "clone" ->
                [vendor_id |-> 4660, product_id |-> 22136,
                 bus_id |-> << 48, 51 >>, device_address |-> 6,
                 alt_settings |-> << HidInterface, VendorInterface(64) >>]
          [] d = "kvm512" ->
                [vendor_id |-> USB_VID, product_id |-> USB_PID,
                 bus_id |-> << 49 >>, device_address |-> 5,
                 alt_settings |-> << HidInterface, VendorInterface(512) >>]
          [] d = "disk" ->
                [vendor_id |-> 1921, product_id |-> 21889,
                 bus_id |-> << 49 >>, device_address |-> 7,
                 alt_settings |->
                    << AltSetting(0, 8, 6, 80, << Endpoint(129, "In", "Bulk", 512),
                                                  Endpoint(2, "Out", "Bulk", 512) >>) >>]
          [] d = "half" ->
                [vendor_id |-> USB_VID, product_id |-> USB_PID,
                 bus_id |-> << 50 >>, device_address |-> 8,
                 alt_settings |->
                    << HidInterface,
                       AltSetting(1, VENDOR_CLASS, VENDOR_SUBCLASS, VENDOR_PROTOCOL,
                                  << Endpoint(129, "In", "Bulk", 64) >>) >>]
          [] d = "dual" ->
                [vendor_id |-> USB_VID, product_id |-> USB_PID,
                 bus_id |-> << 50 >>, device_address |-> 9,
                 alt_settings |->
                    << HidInterface,
                       AltSetting(1, VENDOR_CLASS, VENDOR_SUBCLASS, VENDOR_PROTOCOL,
                                  << Endpoint(2, "Out", "Bulk", 64),
                                     Endpoint(131, "In", "Bulk", 64),
                                     Endpoint(129, "In", "Bulk", 64),
                                     Endpoint(1, "Out", "Bulk", 64) >>),
                       AltSetting(1, VENDOR_CLASS, VENDOR_SUBCLASS, VENDOR_PROTOCOL,
                                  << Endpoint(132, "In", "Bulk", 64),
                                     Endpoint(4, "Out", "Bulk", 64) >>) >>]]

\* checked_mul(10) and checked_add(d) on a u32 kept as << low half, high half >>:
\* <<>> when the result does not fit
u32_push(acc, d) ==
    LET lo == acc[1] * 10 + d
        hi == acc[2] * 10 + (lo \div 65536)
    IN  IF hi > 65535 THEN <<>> ELSE << lo % 65536, hi >>

RECURSIVE u32_digits(_, _, _)
\* the loop of from_str_radix over the digits s[i..], on top of acc
u32_digits(s, i, acc) ==
    IF i > Len(s) \/ acc = <<>> THEN acc
    ELSE u32_digits(s, i + 1, u32_push(acc, s[i] - 48))

\* str::parse::<u32>(): << low half, high half >> for Ok, <<>> for Err
parse_u32(s) ==
    LET digits == IF Len(s) >= 1 /\ s[1] = 43 THEN Tail(s) ELSE s
    IN  IF all_digits(digits) THEN u32_digits(digits, 1, << 0, 0 >>) ELSE <<>>

\* bus_id_matches with the numbers compared only
bus_id_matches_numbers_only(device_bus_id, filter_bus_id) ==
    /\ parse_u32(device_bus_id) # <<>>
    /\ parse_u32(filter_bus_id) # <<>>
    /\ parse_u32(device_bus_id) = parse_u32(filter_bus_id)

\* bus_id_matches: the same string, or the same number
bus_id_matches(device_bus_id, filter_bus_id) ==
    IF device_bus_id = filter_bus_id THEN TRUE
    ELSE /\ parse_u32(device_bus_id) # <<>>
         /\ parse_u32(filter_bus_id) # <<>>
         /\ parse_u32(device_bus_id) = parse_u32(filter_bus_id)

\* Option::is_none_or
is_none_or(option, P(_)) == IF option = <<>> THEN TRUE ELSE P(option[1])

\* the condition of the if inside the for loop of auto_detect
detect_matches(args, di) ==
    /\ is_none_or(args.vid, LAMBDA v : di.vendor_id = v)
    /\ is_none_or(args.pid, LAMBDA p : di.product_id = p)
    /\ is_none_or(args.bus, LAMBDA b : bus_id_matches(di.bus_id, b))
    /\ is_none_or(args.address, LAMBDA a : di.device_address = a)

UnknownDevice == [variant |-> "UnknownDevice"]
DeviceBusy == [variant |-> "DeviceBusy"]
PermissionDenied == [variant |-> "PermissionDenied"]
ActiveConfiguration == [variant |-> "ActiveConfiguration"]

\* the first item of seq that satisfies P, as <<item>>, or <<>>
find(seq, P(_)) ==
    IF \E i \in 1..Len(seq) : P(seq[i])
    THEN << seq[CHOOSE i \in 1..Len(seq) : P(seq[i]) /\ \A j \in 1..(i - 1) : ~P(seq[j])] >>
    ELSE <<>>

\* what the system answers to the calls try_open_device makes: di.open(),
\* active_configuration(), claim_interface(), and endpoint() on an endpoint of
\* the right type
OpenEnv ==
    [open : {"Ok", "Err"}, active_configuration : {"Ok", "Err"},
     claim_interface : {"Ok", "PermissionDenied", "Other"}, endpoint : {"Ok", "Err"}]

\* Interface::endpoint::<Bulk, _>(address): an error for an endpoint that is
\* not a bulk endpoint, else what the system answers
open_endpoint(ep, e) ==
    IF ep.transfer_type # "Bulk" THEN "Err" ELSE e.endpoint

\* try_open_device with every claim failure mapped to DeviceBusy
try_open_device_claim_busy(d, e) ==
    LET cfg       == usb[d].alt_settings
        iface_alt == find(cfg, LAMBDA i : i.class = VENDOR_CLASS /\ i.subclass = VENDOR_SUBCLASS
                                            /\ i.protocol = VENDOR_PROTOCOL)
    IN  IF e.open = "Err" THEN Err(UsbError)
        ELSE IF e.active_configuration = "Err" THEN Err(ActiveConfiguration)
        ELSE IF iface_alt = <<>> THEN Err(UnknownDevice)
        ELSE IF e.claim_interface # "Ok" THEN Err(DeviceBusy)
        ELSE LET alt == find(cfg, LAMBDA i : i.interface_number = iface_alt[1].interface_number)
                 ep_in_addr  == find(alt[1].endpoints, LAMBDA ep : ep.direction = "In")
                 ep_out_addr == find(alt[1].endpoints, LAMBDA ep : ep.direction = "Out")
             IN  IF alt = <<>> \/ ep_in_addr = <<>> \/ ep_out_addr = <<>> THEN Err(UnknownDevice)
                 ELSE IF open_endpoint(ep_in_addr[1], e) = "Err" THEN Err(UsbError)
                 ELSE IF open_endpoint(ep_out_addr[1], e) = "Err" THEN Err(UsbError)
                 ELSE Ok([device_info |-> d, ep_in |-> ep_in_addr[1], ep_out |-> ep_out_addr[1]])

\* try_open_device(di) under the answers e
try_open_device(d, e) ==
    LET cfg       == usb[d].alt_settings
        iface_alt == find(cfg, LAMBDA i : i.class = VENDOR_CLASS /\ i.subclass = VENDOR_SUBCLASS
                                            /\ i.protocol = VENDOR_PROTOCOL)
    IN  IF e.open = "Err" THEN Err(UsbError)
        ELSE IF e.active_configuration = "Err" THEN Err(ActiveConfiguration)
        ELSE IF iface_alt = <<>> THEN Err(UnknownDevice)
        ELSE IF e.claim_interface = "PermissionDenied" THEN Err(PermissionDenied)
        ELSE IF e.claim_interface = "Other" THEN Err(DeviceBusy)
        ELSE LET alt == find(cfg, LAMBDA i : i.interface_number = iface_alt[1].interface_number)
                 ep_in_addr  == find(alt[1].endpoints, LAMBDA ep : ep.direction = "In")
                 ep_out_addr == find(alt[1].endpoints, LAMBDA ep : ep.direction = "Out")
             IN  IF alt = <<>> \/ ep_in_addr = <<>> \/ ep_out_addr = <<>> THEN Err(UnknownDevice)
                 ELSE IF open_endpoint(ep_in_addr[1], e) = "Err" THEN Err(UsbError)
                 ELSE IF open_endpoint(ep_out_addr[1], e) = "Err" THEN Err(UsbError)
                 ELSE Ok([device_info |-> d, ep_in |-> ep_in_addr[1], ep_out |-> ep_out_addr[1]])

\* the arguments of auto_detect
DetectArgs ==
    [vid : {<<>>, << USB_VID >>, << 4660 >>},
     pid : {<<>>, << USB_PID >>},
     bus : {<<>>, << << 51 >> >>, << << 48, 51 >> >>, << << 49 >> >>},
     address : {<<>>, << 5 >>}]

None == [kind |-> "None"]
Some(v) == [kind |-> "Some", value |-> v]

InitDetect ==
    /\ SingleInit
    /\ dev_flags = FeatureFlag_Ota
    /\ NoShared
    /\ NoWait
    /\ NoConfig
    /\ NoCrc
    /\ NoBus
    /\ NoOpen
    /\ NoHeld
    /\ d_pc = "idle"
    /\ d_args = <<>>
    /\ d_devices = <<>>
    /\ d_index = 0
    /\ d_log = <<>>
    /\ d_ret = [kind |-> "none"]

DetectRest == <<Single, SharedVars, WaitVars, ConfigVars, CrcVars, BusVars, OpenVars, w_held>>

\* auto_detect(false, vid, pid, bus, address): nusb::list_devices gives the
\* devices connected, or fails and None is returned
auto_detect ==
    /\ d_pc = "idle"
    /\ d_args' \in DetectArgs
    /\ d_index' = 1
    /\ d_log' = <<>>
    /\ \/ /\ \E connected \in SUBSET {"kvm", "clone", "kvm512", "disk"} :
                d_devices' = SelectSeq(DetectDevices, LAMBDA d : d \in connected)
          /\ d_pc' = "for"
          /\ d_ret' = [kind |-> "none"]
       \/ /\ d_devices' = <<>>
          /\ d_pc' = "done"
          /\ d_ret' = None
    /\ UNCHANGED DetectRest

\* the for loop at a device that does not pass the filters
detect_skip ==
    /\ d_pc = "for"
    /\ d_index <= Len(d_devices)
    /\ ~detect_matches(d_args, usb[d_devices[d_index]])
    /\ d_index' = d_index + 1
    /\ UNCHANGED <<d_pc, d_args, d_devices, d_log, d_ret, DetectRest>>

\* the for loop at a device that passes them: if let Ok(dev) = try_open_device(di)
detect_open ==
    /\ d_pc = "for"
    /\ d_index <= Len(d_devices)
    /\ detect_matches(d_args, usb[d_devices[d_index]])
    /\ \E e \in OpenEnv :
          LET res == try_open_device(d_devices[d_index], e)
          IN  /\ d_log' = Append(d_log, [index |-> d_index, device |-> d_devices[d_index],
                                         res |-> res])
              /\ IF res.kind = "Ok"
                 THEN d_pc' = "done" /\ d_ret' = Some(res.value) /\ UNCHANGED d_index
                 ELSE d_index' = d_index + 1 /\ UNCHANGED <<d_pc, d_ret>>
    /\ UNCHANGED <<d_args, d_devices, DetectRest>>

\* the end of the for loop: None
detect_none ==
    /\ d_pc = "for"
    /\ d_index > Len(d_devices)
    /\ d_pc' = "done"
    /\ d_ret' = None
    /\ UNCHANGED <<d_args, d_devices, d_index, d_log, DetectRest>>

\* the condition of the if of list_devices comparing only the ids supplied
list_devices_matches_supplied(vid, pid, di) ==
    /\ is_none_or(vid, LAMBDA v : di.vendor_id = v)
    /\ is_none_or(pid, LAMBDA q : di.product_id = q)

\* di.vendor_id() == vid.unwrap_or(USB_VID) && di.product_id() == pid.unwrap_or(USB_PID)
list_devices_matches(vid, pid, di) ==
    /\ di.vendor_id = (IF vid = <<>> THEN USB_VID ELSE vid[1])
    /\ di.product_id = (IF pid = <<>> THEN USB_PID ELSE pid[1])

\* the Vec list_devices builds from the devices enumerated
list_devices_ret(vid, pid, devices) ==
    LET matching == SelectSeq(devices, LAMBDA d : list_devices_matches(vid, pid, usb[d]))
    IN  [i \in 1..Len(matching) |->
            << usb[matching[i]].bus_id, usb[matching[i]].device_address >>]

\* Esparrier::list_devices(vid, pid): nusb::list_devices gives the devices
\* connected and the loop runs over them (d_index past the last), or it fails
\* and Vec::new() is returned (d_index 0)
Esparrier_list_devices ==
    /\ d_pc = "idle"
    /\ d_args' \in {a \in DetectArgs : a.bus = <<>> /\ a.address = <<>>}
    /\ d_log' = <<>>
    /\ d_pc' = "listed"
    /\ \/ /\ \E connected \in SUBSET {"kvm", "clone", "kvm512", "disk"} :
                d_devices' = SelectSeq(DetectDevices, LAMBDA d : d \in connected)
          /\ d_index' = Len(d_devices') + 1
          /\ d_ret' = [kind |-> "Vec",
                       value |-> list_devices_ret(d_args'.vid, d_args'.pid, d_devices')]
       \/ /\ d_devices' = <<>>
          /\ d_index' = 0
          /\ d_ret' = [kind |-> "Vec", value |-> <<>>]
    /\ UNCHANGED DetectRest

\* the caller calls auto_detect or list_devices again
detect_again ==
    /\ d_pc \in {"done", "listed"}
    /\ d_pc' = "idle"
    /\ d_args' = <<>>
    /\ d_devices' = <<>>
    /\ d_index' = 0
    /\ d_log' = <<>>
    /\ d_ret' = [kind |-> "none"]
    /\ UNCHANGED DetectRest

NextDetect ==
    \/ auto_detect
    \/ detect_skip
    \/ detect_open
    \/ detect_none
    \/ Esparrier_list_devices
    \/ detect_again

SpecDetect == InitDetect /\ [][NextDetect]_vars

----------------------------------------------------------------------------
(* validate, to_vec and from_slice on one configuration                    *)

\* "10.0.0.2:0...024800" of n bytes: the port of BaseConfig written with zeros
\* before it
padded_server(n) ==
    << 49, 48, 46, 48, 46, 48, 46, 50, 58 >> \o [i \in 1..(n - 14) |-> 48]
        \o << 50, 52, 56, 48, 48 >>

\* the values given to one field of BaseConfig: strings that are empty, at the
\* length limit and above it, numbers at and around the limits of validate,
\* addresses well and ill formed, values that are and are not the default of
\* the field, strings that need escaping
ConfigEdits ==
    <<
       << "ssid", <<>> >>,   \* empty
       << "ssid", xs(32) >>,   \* of 32 bytes
       << "ssid", xs(33) >>,   \* of 33 bytes
       << "password", <<>> >>,   \* empty
       << "password", xs(64) >>,   \* of 64 bytes
       << "password", xs(65) >>,   \* of 65 bytes
       << "screen_name", <<>> >>,   \* empty
       << "screen_name", xs(64) >>,   \* of 64 bytes
       << "screen_name", xs(65) >>,   \* of 65 bytes
       << "manufacturer", <<>> >>,   \* empty
       << "manufacturer", xs(64) >>,   \* of 64 bytes
       << "manufacturer", xs(65) >>,   \* of 65 bytes
       << "product", <<>> >>,   \* empty
       << "product", xs(64) >>,   \* of 64 bytes
       << "product", xs(65) >>,   \* of 65 bytes
       << "serial_number", <<>> >>,   \* empty
       << "serial_number", xs(64) >>,   \* of 64 bytes
       << "serial_number", xs(65) >>,   \* of 65 bytes
       << "landing_url", <<>> >>,   \* empty
       << "landing_url", xs(255) >>,   \* of 255 bytes
       << "landing_url", xs(256) >>,   \* of 256 bytes
       << "server", <<>> >>,   \* empty
       << "server", padded_server(64) >>,   \* "10.0.0.2:0...024800" of 64 bytes
       << "server", padded_server(65) >>,   \* "10.0.0.2:0...024800" of 65 bytes
       << "server", << 110, 111, 116, 45, 97, 110, 45, 101, 110, 100, 112, 111, 105, 110, 116 >> >>,   \* "not-an-endpoint"
       << "server", << 49, 48, 46, 48, 46, 48, 46, 50 >> >>,   \* "10.0.0.2"
       << "server", << 49, 48, 46, 48, 46, 48, 46, 50, 58, 55, 48, 48, 48, 48 >> >>,   \* "10.0.0.2:70000"
       << "server", << 50, 53, 54, 46, 48, 46, 48, 46, 49, 58, 56, 48 >> >>,   \* "256.0.0.1:80"
       << "server", << 49, 48, 46, 48, 46, 48, 46, 50, 58, 48, 56, 48 >> >>,   \* "10.0.0.2:080"
       << "screen_width", 0 >>,
       << "screen_width", 1 >>,
       << "screen_width", 1920 >>,
       << "screen_width", 32767 >>,
       << "screen_width", 32768 >>,
       << "screen_width", 33000 >>,
       << "screen_height", 0 >>,
       << "screen_height", 1 >>,
       << "screen_height", 1080 >>,
       << "screen_height", 32767 >>,
       << "screen_height", 32768 >>,
       << "screen_height", 33000 >>,
       << "brightness", 0 >>,
       << "brightness", 1 >>,
       << "brightness", 10 >>,
       << "brightness", 100 >>,
       << "brightness", 101 >>,
       << "ip_addr", << << 49, 48, 46, 48, 46, 48, 46, 49 >> >> >>,   \* Some("10.0.0.1")
       << "ip_addr", << << 49, 48, 46, 48, 46, 48, 46, 49, 47, 97, 98, 99 >> >> >>,   \* Some("10.0.0.1/abc")
       << "ip_addr", << << 49, 48, 46, 48, 46, 48, 46, 49, 47, 50, 53, 54 >> >> >>,   \* Some("10.0.0.1/256")
       << "ip_addr", << << 49, 48, 46, 48, 46, 48, 46, 49, 47, 50, 52, 47, 53 >> >> >>,   \* Some("10.0.0.1/24/5")
       << "ip_addr", << << 49, 48, 46, 48, 46, 48, 47, 50, 52 >> >> >>,   \* Some("10.0.0/24")
       << "ip_addr", << << 49, 48, 46, 48, 46, 48, 46, 55, 47, 50, 52 >> >> >>,   \* Some("10.0.0.7/24")
       << "ip_addr", << << 49, 48, 46, 48, 46, 48, 46, 55, 47, 43, 56 >> >> >>,   \* Some("10.0.0.7/+8")
       << "ip_addr", << << 49, 48, 46, 48, 46, 48, 46, 55, 47 >> >> >>,   \* Some("10.0.0.7/")
       << "ip_addr", << << 47, 50, 52 >> >> >>,   \* Some("/24")
       << "ip_addr", << << 48, 49, 48, 46, 48, 46, 48, 46, 55, 47, 50, 52 >> >> >>,   \* Some("010.0.0.7/24")
       << "dns_server", << << 56, 46, 56, 46, 56, 46, 56 >>, << 49, 46, 50, 46, 51 >> >> >>,   \* ["8.8.8.8", "1.2.3"]
       << "dns_server", << << 56, 46, 56, 46, 56, 46, 56 >>, << 49, 46, 49, 46, 49, 46, 49 >> >> >>,   \* ["8.8.8.8", "1.1.1.1"]
       << "gateway", << << 49, 48, 46, 48, 46, 48, 46, 50, 53, 54 >> >> >>,   \* Some("10.0.0.256")
       << "gateway", << << 49, 48, 46, 48, 46, 48, 46, 49 >> >> >>,   \* Some("10.0.0.1")
       << "gateway", << <<>> >> >>,   \* Some("")
       << "flip_wheel", TRUE >>,
       << "polling_rate", 125 >>,
       << "jiggle_interval", 30 >>,
       << "vid", 4660 >>,   \* 0x1234
       << "pid", 4 >>,
       << "manufacturer", << 97, 99, 109, 101 >> >>,   \* "acme"
       << "product", << 75, 86, 77 >> >>,   \* "KVM"
       << "serial_number", << 48, 48, 48, 49 >> >>,   \* "0001"
       << "landing_url", << 104, 116, 116, 112, 58, 47, 47, 97, 46, 98, 47 >> >>,   \* "http://a.b/"
       << "watchdog_timeout", 30 >>,
       << "watchdog_timeout", 70000 >>,
       << "screen_name", << 97, 34, 98, 92, 99 >> >>,   \* a, quote, b, backslash, c
       << "screen_name", << 116, 97, 98, 9, 104, 101, 114, 101, 10, 1 >> >>,   \* with a tab, a line feed and the byte 1
       << "password", << 99, 97, 102, 195, 169, 32, 226, 130, 172 >> >> >>   \* with the UTF-8 of U+00E9 and U+20AC

\* c with the field of edit k set to its value
edited(c, k) == [c EXCEPT ![ConfigEdits[k][1]] = ConfigEdits[k][2]]

\* the configurations considered: BaseConfig with at most two fields edited
ConfigCases ==
    {BaseConfig}
        \cup {edited(BaseConfig, k) : k \in 1..Len(ConfigEdits)}
        \cup {edited(edited(BaseConfig, j), k) :
                 j \in 1..Len(ConfigEdits), k \in 1..Len(ConfigEdits)}

\* what a device answers to ReadConfig, after the blocks are joined: the JSON
\* of BaseConfig with the password (no redaction), the same without it, and
\* the payload of ConfigBlockA and ConfigBlockB, which has no password either
DevicePayloads ==
    { to_vec(BaseConfig),
      to_vec([BaseConfig EXCEPT !.password = <<>>]),
      ConfigBlockA \o ConfigBlockB }

\* config.ssid = "test".to_string()
TestSsid == << 116, 101, 115, 116 >>

InitConfig ==
    /\ SingleInit
    /\ dev_flags = FeatureFlag_Ota
    /\ NoShared
    /\ NoWait
    /\ NoDetect
    /\ NoCrc
    /\ NoBus
    /\ NoOpen
    /\ NoHeld
    /\ c_valid = [kind |-> "none"]
    /\ c_parsed = [kind |-> "none"]
    /\ \/ /\ c_origin = "caller"
          /\ c_pc = "new"
          /\ c_config \in ConfigCases
          /\ c_json = <<>>
       \/ /\ c_origin = "device"
          /\ c_pc = "payload"
          /\ c_config = <<>>
          /\ c_json \in DevicePayloads

ConfigRest == <<Single, SharedVars, WaitVars, DetectVars, CrcVars, BusVars, OpenVars, w_held>>

\* the end of get_config on the payload the device sent
get_config_returns ==
    /\ c_pc = "payload"
    /\ c_parsed' = get_config_parse(c_json)
    /\ c_pc' = "got"
    /\ UNCHANGED <<c_origin, c_config, c_valid, c_json, ConfigRest>>

\* let mut config = get_config().await.unwrap(); config.ssid = "test".to_string()
set_ssid ==
    /\ c_pc = "got"
    /\ c_parsed.kind = "Ok"
    /\ c_config' = [c_parsed.value EXCEPT !.ssid = TestSsid]
    /\ c_pc' = "new"
    /\ UNCHANGED <<c_origin, c_valid, c_json, c_parsed, ConfigRest>>

\* config.validate(), the first statement of set_config
validate_config ==
    /\ c_pc = "new"
    /\ c_valid' = validate(c_config)
    /\ c_pc' = "validated"
    /\ UNCHANGED <<c_origin, c_config, c_json, c_parsed, ConfigRest>>

\* serde_json::to_vec(&config)
to_vec_config ==
    /\ c_pc = "validated"
    /\ c_json' = to_vec(c_config)
    /\ c_pc' = "serialized"
    /\ UNCHANGED <<c_origin, c_config, c_valid, c_parsed, ConfigRest>>

\* serde_json::from_slice on what to_vec gave
from_slice_config ==
    /\ c_pc = "serialized"
    /\ c_parsed' = (LET r == from_slice(c_json)
                    IN  IF r.ok THEN Ok(r.val) ELSE Err(FormatError("Invalid JSON format")))
    /\ c_pc' = "parsed"
    /\ UNCHANGED <<c_origin, c_config, c_valid, c_json, ConfigRest>>

NextConfig ==
    \/ get_config_returns
    \/ set_ssid
    \/ validate_config
    \/ to_vec_config
    \/ from_slice_config

SpecConfig == InitConfig /\ [][NextConfig]_vars

----------------------------------------------------------------------------
(* crc32 and the start of upload_ota on given bytes                        *)

\* the longest input built from CrcBytes
MaxData == 3

CrcBytes == {0, 1, 128, 255}

\* "123456789"
CheckInput == << 49, 50, 51, 52, 53, 54, 55, 56, 57 >>

\* a firmware image: the empty one, the images of up to MaxData bytes, "123456789"
CrcInputs ==
    UNION {[1..n -> CrcBytes] : n \in 0..MaxData} \cup {CheckInput}

InitCrc ==
    /\ SingleInit
    /\ dev_flags = FeatureFlag_Ota
    /\ NoShared
    /\ NoWait
    /\ NoDetect
    /\ NoConfig
    /\ NoBus
    /\ NoOpen
    /\ NoHeld
    /\ k_pc = "idle"
    /\ k_data \in CrcInputs
    /\ k_crc = << 0, 0 >>
    /\ k_calls = 0
    /\ k_out = <<>>

CrcRest == UNCHANGED <<Single, SharedVars, WaitVars, DetectVars, ConfigVars, BusVars, OpenVars, w_held>>

\* crc32(data) called on its own
crc32_alone ==
    /\ k_pc = "idle"
    /\ k_pc' = "crc32"
    /\ k_crc' = crc32(k_data)
    /\ k_calls' = k_calls + 1
    /\ UNCHANGED <<k_data, k_out>>
    /\ CrcRest

\* upload_ota: the size check passes
start_size_ok ==
    /\ k_pc = "idle"
    /\ ~invalid_firmware_size(Len(k_data))
    /\ k_pc' = "sized"
    /\ UNCHANGED <<k_data, k_crc, k_calls, k_out>>
    /\ CrcRest

\* upload_ota: return Err(Error::OtaError("Invalid firmware size: ..."))
start_size_invalid ==
    /\ k_pc = "idle"
    /\ invalid_firmware_size(Len(k_data))
    /\ k_pc' = "invalid"
    /\ UNCHANGED <<k_data, k_crc, k_calls, k_out>>
    /\ CrcRest

\* upload_ota: let crc = crc32(firmware)
start_crc32 ==
    /\ k_pc = "sized"
    /\ k_pc' = "summed"
    /\ k_crc' = crc32(k_data)
    /\ k_calls' = k_calls + 1
    /\ UNCHANGED <<k_data, k_out>>
    /\ CrcRest

\* upload_ota: self.write(&start_cmd)
start_write ==
    /\ k_pc = "summed"
    /\ k_pc' = "started"
    /\ k_out' = Append(k_out, start_cmd(Len(k_data), k_crc))
    /\ UNCHANGED <<k_data, k_crc, k_calls>>
    /\ CrcRest

NextCrc ==
    \/ crc32_alone
    \/ start_size_ok
    \/ start_size_invalid
    \/ start_crc32
    \/ start_write

SpecCrc == InitCrc /\ [][NextCrc]_vars

----------------------------------------------------------------------------
(* bus_id_matches on two bus ids                                           *)

\* bus ids: "3", "03", "+3", "4", "0", "00", "usb1", "usb01", "", "+", "-3",
\* "3 ", "1-1", "1000001", "10000015", "4294967295", "04294967295",
\* "4294967296", "42949672950"
BusIds ==
    { << 51 >>, << 48, 51 >>, << 43, 51 >>, << 52 >>, << 48 >>, << 48, 48 >>,
      << 117, 115, 98, 49 >>, << 117, 115, 98, 48, 49 >>, <<>>, << 43 >>, << 45, 51 >>,
      << 51, 32 >>, << 49, 45, 49 >>,
      << 49, 48, 48, 48, 48, 48, 49 >>, << 49, 48, 48, 48, 48, 48, 49, 53 >>,
      << 52, 50, 57, 52, 57, 54, 55, 50, 57, 53 >>,
      << 48, 52, 50, 57, 52, 57, 54, 55, 50, 57, 53 >>,
      << 52, 50, 57, 52, 57, 54, 55, 50, 57, 54 >>,
      << 52, 50, 57, 52, 57, 54, 55, 50, 57, 53, 48 >> }

InitBus ==
    /\ SingleInit
    /\ dev_flags = FeatureFlag_Ota
    /\ NoShared
    /\ NoWait
    /\ NoDetect
    /\ NoConfig
    /\ NoCrc
    /\ NoOpen
    /\ NoHeld
    /\ m_pc = "idle"
    /\ m_a \in BusIds
    /\ m_b \in BusIds
    /\ m_ret = FALSE
    /\ m_rev = FALSE

\* bus_id_matches(a, b) and bus_id_matches(b, a) return
bus_id_matches_returns ==
    /\ m_pc = "idle"
    /\ m_pc' = "returned"
    /\ m_ret' = bus_id_matches(m_a, m_b)
    /\ m_rev' = bus_id_matches(m_b, m_a)
    /\ UNCHANGED <<m_a, m_b>>
    /\ UNCHANGED <<Single, SharedVars, WaitVars, DetectVars, ConfigVars, CrcVars, OpenVars, w_held>>

NextBus == bus_id_matches_returns

SpecBus == InitBus /\ [][NextBus]_vars

----------------------------------------------------------------------------
(* try_open_device on one device                                           *)

\* the devices try_open_device is called on
OpenDevices == {"kvm", "clone", "kvm512", "disk", "half", "dual"}

InitOpen ==
    /\ SingleInit
    /\ dev_flags = FeatureFlag_Ota
    /\ NoShared
    /\ NoWait
    /\ NoDetect
    /\ NoConfig
    /\ NoCrc
    /\ NoBus
    /\ NoHeld
    /\ o_pc = "idle"
    /\ o_di \in OpenDevices
    /\ o_env \in OpenEnv
    /\ o_ret = <<>>

\* try_open_device(di) returns
try_open_device_returns ==
    /\ o_pc = "idle"
    /\ o_pc' = "returned"
    /\ o_ret' = try_open_device(o_di, o_env)
    /\ UNCHANGED <<o_di, o_env>>
    /\ UNCHANGED <<Single, SharedVars, WaitVars, DetectVars, ConfigVars, CrcVars, BusVars, w_held>>

NextOpen == try_open_device_returns

SpecOpen == InitOpen /\ [][NextOpen]_vars

----------------------------------------------------------------------------

(* Properties of upload_ota                                                *)

InUploadOta == op = "upload_ota"
ValidSize == total_size \in 1..MAX_FIRMWARE_SIZE
Done == pc = "done"

\* IEEE 802.3 CRC-32 of the firmware images, as little-endian bytes: known
\* answers from zlib.crc32, not computed by crc32 above
KnownCrc32LE(n) ==
    CASE n = 1     -> << 5, 54, 208, 69 >>
      [] n = 64    -> << 9, 230, 186, 255 >>
      [] n = 65    -> << 215, 117, 47, 74 >>
      [] n = 4096  -> << 4, 178, 123, 253 >>
      [] n = 4097  -> << 174, 137, 64, 66 >>
      [] n = 8000  -> << 170, 235, 131, 167 >>
      [] n = 8192  -> << 194, 16, 11, 170 >>
      [] n = 8193  -> << 137, 158, 16, 48 >>
      [] n = 12288 -> << 192, 203, 116, 165 >>
      [] n = 12289 -> << 126, 128, 17, 222 >>
      [] n = 16384 -> << 160, 89, 131, 156 >>

\* n as four little-endian bytes, for n < 2^31
LE4(n) == << n % 256, (n \div 256) % 256, (n \div 65536) % 256, n \div 16777216 >>

\* C1: upload_ota on a device whose feature_flags has bit 0x40 clear fails with
\* OtaNotSupported and never submits an OtaStart ('O') packet.
C1_NoOtaStartWithoutOtaFlag ==
    (InUploadOta /\ ValidSize /\ (dev_flags \div 64) % 2 = 0)
        => /\ \A i \in 1..Len(out) : out[i][1] # b_O
           /\ Done => ret = Err(OtaNotSupported)

\* C2: with a firmware of 1..=0x100000 bytes the first packet submitted is the
\* 9-byte OtaStart ('O', size LE, crc32 of the whole firmware LE); nothing else
\* is submitted unless the response to OtaStart begins with 'o'; a response
\* beginning with 'e' returns the decoded OTA error, an empty response or any
\* other first byte returns InvalidResponse.
C2_OtaStartFirst ==
    (InUploadOta /\ ValidSize) =>
        /\ Len(out) >= 1 =>
              out[1] = << 79 >> \o LE4(total_size) \o KnownCrc32LE(total_size)
        /\ Len(out) >= 2 => (Len(inp) >= 1 /\ Len(inp[1]) >= 1 /\ inp[1][1] = 111)
        /\ Len(inp) = 1 =>
              LET r == inp[1]
              IN  IF Len(r) >= 1 /\ r[1] = 111
                  THEN ~Done \/ Len(out) >= 2
                  ELSE /\ Done
                       /\ Len(out) = 1
                       /\ ret.kind = "Err"
                       /\ IF Len(r) >= 3 /\ r[1] = 101 /\ r[2] = 79
                          THEN ret.error.variant = "OtaError"
                          ELSE ret.error = InvalidResponse

\* an OtaStart answered with ['e','O','c'] for the 8000-byte firmware
C2_Witness ==
    /\ InUploadOta /\ total_size = 8000 /\ Done
    /\ Len(out) = 1 /\ Len(out[1]) = 9
    /\ inp = << << 101, 79, 99 >> >>

\* the chunk lengths and packet counts the protocol prescribes for a firmware
\* of L bytes
ChunkCount(L) == (L + 4095) \div 4096
ChunkLen(L, k) == IF L - 4096 * k < 4096 THEN L - 4096 * k ELSE 4096
ChunkPackets(L, k) == (ChunkLen(L, k) + 63) \div 64

\* Every chunk before the last takes 1 + 64 packets, so the i-th packet of the
\* call (i >= 2) belongs to chunk (i - 2) \div 65, at place (i - 2) % 65 in it.
IsHeader(i) == i >= 2 /\ (i - 2) % 65 = 0
HeaderLen(h) == h[3] + 256 * h[4]
Headers == {i \in 1..Len(out) : IsHeader(i)}

RECURSIVE SumHeaderLens(_)
SumHeaderLens(I) ==
    IF I = {} THEN 0
    ELSE LET i == CHOOSE x \in I : TRUE
         IN  HeaderLen(out[i]) + SumHeaderLens(I \ {i})

\* the packet at place i of the call is the one the protocol prescribes
PacketAsPrescribed(i) ==
    LET L == total_size
        k == (i - 2) \div 65
        r == (i - 2) % 65
        n == ChunkLen(L, k)
    IN  /\ k < ChunkCount(L)
        /\ IF r = 0
           THEN /\ ChunkPackets(L, k) <= 255 /\ n <= 65535
                /\ out[i] = << 68, ChunkPackets(L, k), n % 256, n \div 256 >>
           ELSE /\ r <= ChunkPackets(L, k)
                /\ Len(out[i]) = 64
                /\ \A b \in 1..64 :
                      out[i][b] = IF 64 * (r - 1) + b <= n
                                  THEN FirmwareByte(4096 * k + 64 * (r - 1) + b - 1)
                                  ELSE 0

\* C3: the k-th OtaData header is ['D', packets, length LE] with
\* length = min(4096, L - 4096 k) and packets = ceil(length / 64), both within
\* their fields; it is followed by exactly `packets` 64-byte packets holding the
\* chunk's bytes and then zeros; the lengths of all chunks sum to L.
\* (out only grows during a call, so every packet is the last one in some
\* state: the packet checked is the last one.)
C3_ChunkFraming ==
    (InUploadOta /\ ValidSize) =>
        /\ Len(out) >= 2 => PacketAsPrescribed(Len(out))
        /\ SumHeaderLens(Headers) = Min(4096 * Cardinality(Headers), total_size)
        /\ pc = "ota_ack_read" =>
              /\ Cardinality(Headers) = chunk_no + 1
              /\ Len(out) = 1 + 65 * chunk_no + 1 + ChunkPackets(total_size, chunk_no)
              /\ SumHeaderLens(Headers) = sent
        /\ (Done /\ Len(inp) = 1 + ChunkCount(total_size)) =>
              SumHeaderLens(Headers) = total_size

\* the 4097-byte firmware fully sent: 1 + (1 + 64) + (1 + 1) packets, the last
\* one holding one byte of the firmware and 63 zeros
C3_Witness ==
    /\ InUploadOta /\ total_size = 4097 /\ Done /\ Len(inp) = 3
    /\ Len(out) = 68
    /\ out[2] = << 68, 64, 0, 16 >>
    /\ out[67] = << 68, 1, 1, 0 >>
    /\ out[68] = << FirmwareByte(4096) >> \o [i \in 1..63 |-> 0]
    /\ FirmwareByte(4096) # 0

\* the header packets submitted so far, in order
RECURSIVE HeaderLensFrom(_)
HeaderLensFrom(i) ==
    IF i > Len(out) THEN <<>>
    ELSE IF Len(out[i]) = 4 /\ out[i][1] = 68
         THEN << HeaderLen(out[i]) >> \o HeaderLensFrom(i + 1)
         ELSE HeaderLensFrom(i + 1)

\* the device answered OtaStart with 'o', every chunk but the last with 'P' or
\* 'o', and ...
StartAcked == Len(inp) >= 1 /\ Len(inp[1]) >= 1 /\ inp[1][1] = 111
ChunkAcked(j) == Len(inp[j]) >= 1 /\ inp[j][1] \in {80, 111}
ChunkCompleted(j) == Len(inp[j]) >= 1 /\ inp[j][1] = 67

\* C4: when the device answers OtaStart with 'o', every chunk but the last with
\* 'P' or 'o' and the last with 'C', upload_ota returns Ok(()) having sent
\* exactly ceil(L / 4096) chunks (8000 bytes: chunks of 4096 and 3904 bytes).
C4_CompleteReturnsOk ==
    LET N == ChunkCount(total_size)
    IN  (/\ InUploadOta /\ ValidSize
         /\ Len(inp) = N + 1
         /\ StartAcked
         /\ \A j \in 2..N : ChunkAcked(j)
         /\ ChunkCompleted(N + 1))
        => /\ Done
           /\ ret = Ok("unit")
           /\ Len(HeaderLensFrom(1)) = N
           /\ total_size = 8000 => HeaderLensFrom(1) = << 4096, 3904 >>

C4_Witness ==
    /\ InUploadOta /\ total_size = 8000 /\ Done /\ ret = Ok("unit")
    /\ Len(inp) = 3 /\ ChunkAcked(2) /\ ChunkCompleted(3)
    /\ HeaderLensFrom(1) = << 4096, 3904 >>

\* C5: when every chunk was sent and acknowledged with 'P' or 'o' and no 'C'
\* was received, upload_ota fails with OtaError("OTA did not complete as
\* expected") and does not return Ok.
C5_NoCompleteIsError ==
    LET N == ChunkCount(total_size)
    IN  (/\ InUploadOta /\ ValidSize
         /\ Len(inp) = N + 1
         /\ StartAcked
         /\ \A j \in 2..(N + 1) : ChunkAcked(j))
        => /\ Done
           /\ ret = Err([variant |-> "OtaError",
                         msg |-> "OTA did not complete as expected"])

C5_Witness ==
    /\ InUploadOta /\ total_size = 4097 /\ Done
    /\ Len(inp) = 3 /\ StartAcked /\ ChunkAcked(2) /\ ChunkAcked(3)
    /\ ret.kind = "Err" /\ ret.error.variant = "OtaError"

\* the message the protocol assigns to an OTA error code
OtaErrorMessage(code) ==
    CASE code = 97  -> "OTA already in progress"       \* 'a'
      [] code = 110 -> "OTA not started"               \* 'n'
      [] code = 105 -> "OTA initialization failed"     \* 'i'
      [] code = 119 -> "OTA write failed"              \* 'w'
      [] code = 99  -> "CRC mismatch"                  \* 'c'
      [] code = 102 -> "OTA flush failed"              \* 'f'
      [] code = 115 -> "Invalid firmware size"         \* 's'
      [] code = 112 -> "OTA partition not found"       \* 'p'
      [] OTHER      -> "Unknown OTA error"

\* C6: when the device answers OtaStart or a chunk with ['e','O',code],
\* upload_ota returns OtaError with the message of the decode table and submits
\* nothing after that response (the call has returned); an 'e' response shorter
\* than 3 bytes or whose second byte is not 'O' gives InvalidResponse.
C6_ErrorDecode ==
    (InUploadOta /\ ValidSize /\ Len(inp) >= 1) =>
        LET r == inp[Len(inp)]
        IN  (Len(r) >= 1 /\ r[1] = 101) =>
               /\ Done
               /\ Len(out) = IF Len(inp) = 1 THEN 1
                             ELSE 1 + 65 * (Len(inp) - 2) + 1
                                    + ChunkPackets(total_size, Len(inp) - 2)
               /\ ret = IF Len(r) >= 3 /\ r[2] = 79
                        THEN [kind |-> "Err",
                              error |-> [variant |-> "OtaError",
                                         msg |-> OtaErrorMessage(r[3])]]
                        ELSE [kind |-> "Err",
                              error |-> [variant |-> "InvalidResponse"]]

\* ['e','O','c'] after the first chunk of the 8000-byte firmware
C6_Witness ==
    /\ InUploadOta /\ total_size = 8000 /\ Done
    /\ Len(inp) = 2 /\ inp[2] = << 101, 79, 99 >>
    /\ Len(out) = 66
    /\ ret.kind = "Err" /\ ret.error.variant = "OtaError"
    /\ ret.error.msg = "CRC mismatch"

\* C7: the progress callback is invoked once per transmitted chunk, after the
\* chunk's last data packet and before its acknowledgement is read, with
\* (cumulative bytes sent, total); the values increase strictly and never
\* exceed total; for 8000 bytes completed with 'C' they are (4096, 8000) and
\* (8000, 8000).
C7_ProgressCallback ==
    (InUploadOta /\ ValidSize /\ progress_callback) =>
        /\ \A m \in 1..Len(progress) :
              /\ progress[m] = << Min(4096 * m, total_size), total_size >>
              /\ progress[m][1] <= total_size
              /\ m > 1 => progress[m - 1][1] < progress[m][1]
              \* after the last data packet of chunk m - 1
              /\ Len(out) >= 1 + 65 * (m - 1) + 1 + ChunkPackets(total_size, m - 1)
        \* before the acknowledgement of the chunk is read
        /\ Len(inp) >= 1 => Len(progress) >= Len(inp) - 1
        /\ pc = "ota_ack_read" => Len(progress) = Len(inp)
        /\ pc \in {"ota_header_write", "ota_packet_write"} =>
              Len(progress) = Len(inp) - 1
        /\ Len(progress) <= Cardinality(Headers)
        /\ (total_size = 8000 /\ Done /\ ret = Ok("unit") /\ Len(inp) = 3) =>
              progress = << << 4096, 8000 >>, << 8000, 8000 >> >>

C7_Witness ==
    /\ InUploadOta /\ progress_callback /\ total_size = 8000
    /\ Done /\ ret = Ok("unit") /\ Len(inp) = 3
    /\ progress = << << 4096, 8000 >>, << 8000, 8000 >> >>

\* C8: upload_ota with a firmware of 0 bytes or of more than 0x100000 bytes
\* fails before anything is written or read; 1 and 0x100000 bytes are accepted
\* (an accepted call goes on to submit OtaStart).  The largest firmware the
\* model uploads is MaxChunks chunks, so 0x100000 is decided on the size check.
C8_SizeCheck ==
    /\ InUploadOta =>
          IF total_size = 0 \/ total_size > 1048576
          THEN Done /\ ret.kind = "Err" /\ out = <<>> /\ inp = <<>>
          ELSE /\ out = <<>> => (pc = "ota_start_write" /\ ret = NoRet)
               /\ Done => Len(out) >= 1
    /\ ~invalid_firmware_size(1048576)

C8_Witness ==
    /\ InUploadOta /\ firmware = 1048577 /\ total_size = 1048577
    /\ Done /\ ret.kind = "Err" /\ out = <<>> /\ inp = <<>>

----------------------------------------------------------------------------
(* Properties of get_state                                                 *)

InGetState == op = "get_state"

\* C9: get_state returns InvalidResponse, and neither panics nor returns a
\* state, whenever the response is shorter than 14 bytes or its first byte is
\* not 's'; a 13-byte response beginning with 's' is rejected.
C9_ShortStateRejected ==
    (InGetState /\ Len(inp) = 1) =>
        LET r == inp[1]
        IN  (Len(r) < 14 \/ r[1] # 115) =>
               (Done /\ ret = [kind |-> "Err", error |-> [variant |-> "InvalidResponse"]])

ModelName(id) ==
    CASE id = 1   -> "m5atoms3-lite"
      [] id = 2   -> "m5atoms3"
      [] id = 3   -> "m5atoms3r"
      [] id = 4   -> "devkitc-1_0"
      [] id = 5   -> "devkitc-1_1"
      [] id = 6   -> "xiao-esp32s3"
      [] id = 7   -> "esp32-s3-eth"
      [] id = 255 -> "generic"
      [] OTHER    -> "None"

SpecExamplePacket == << 115, 1, 2, 3, 64, 192, 168, 1, 42, 24, 1, 0, 1, 6 >>

\* C10: get_state writes one OUT packet 's' and reads one IN packet; a valid
\* response is decoded field by field at the offsets of the 14-byte layout;
\* has_ota_support() is feature_flags & 0x40 != 0 and model_name() follows the
\* table; the packet of the specification decodes to its stated values.
C10_StateDecode ==
    InGetState =>
        /\ Len(out) <= 1 /\ Len(inp) <= 1
        /\ Len(out) = 1 => out[1] = << 115 >>
        /\ Len(inp) = 1 => Len(out) = 1
        /\ (Done /\ ret.kind # "Err") => Len(inp) = 1
        /\ (Done /\ ret.kind = "Ok") =>
              LET r == inp[1]
                  st == ret.value
              IN  /\ version(st) = << r[2], r[3], r[4] >>
                  /\ st.feature_flags = r[5]
                  /\ st.ip_address = << r[6], r[7], r[8], r[9] >>
                  /\ st.ip_prefix = r[10]
                  /\ st.server_connected = (r[11] # 0)
                  /\ st.active = (r[12] # 0)
                  /\ st.keep_awake = (r[13] # 0)
                  /\ st.model_id = r[14]
                  /\ has_ota_support(st) = (r[5] % 128 >= 64)
                  /\ model_name(st) = ModelName(r[14])
        /\ (Len(inp) = 1 /\ inp[1] = SpecExamplePacket) =>
              /\ Done
              /\ ret.kind = "Ok"
              /\ version(ret.value) = << 1, 2, 3 >>
              /\ ret.value.ip_address = << 192, 168, 1, 42 >>
              /\ ret.value.ip_prefix = 24
              /\ ret.value.server_connected = TRUE
              /\ ret.value.active = FALSE
              /\ ret.value.keep_awake = TRUE
              /\ model_name(ret.value) = "xiao-esp32s3"
              /\ has_ota_support(ret.value) = TRUE

C10_Witness ==
    /\ InGetState /\ Done /\ ret.kind = "Ok"
    /\ out = << << 115 >> >>
    /\ inp = << SpecExamplePacket >>
    /\ ret.value.model_id = 6 /\ ret.value.keep_awake /\ ~ret.value.active

----------------------------------------------------------------------------
(* Properties of set_config and of the commands answered with 'o'          *)

InSetConfig == op = "set_config"

\* the configurations of Configs that break a rule of validate, and the rule
BrokenRule(k) ==
    CASE k = 6  -> << "FieldEmpty", "ssid" >>
      [] k = 7  -> << "FieldTooLong", "ssid" >>
      [] k = 8  -> << "FieldEmpty", "password" >>
      [] k = 9  -> << "InvalidEndpoint", "server" >>
      [] k = 10 -> << "FieldOutOfRange", "screen_width" >>
      [] k = 11 -> << "FieldOutOfRange", "screen_height" >>
      [] k = 12 -> << "FieldOutOfRange", "brightness" >>
      [] k = 13 -> << "InvalidIpAddress", "ip_addr" >>
      [] k = 14 -> << "InvalidIpCidrPrefix", "ip_addr" >>
      [] k = 15 -> << "InvalidIpAddress", "dns_server" >>
      [] k = 16 -> << "InvalidIpAddress", "gateway" >>
      [] k = 17 -> << "FieldEmpty", "product" >>
      [] k = 18 -> << "FieldTooLong", "landing_url" >>
      [] OTHER  -> << "none", "none" >>

\* C11: set_config with a configuration that breaks a validation rule returns
\* Error::ConfigError (of the kind of the rule, naming the field) and performs
\* no USB transfer: nothing is written on OUT and nothing is read on IN.
C11_InvalidConfigNoTraffic ==
    (InSetConfig /\ BrokenRule(config)[1] # "none") =>
        /\ Done
        /\ ret.kind = "Err"
        /\ ret.error.variant = "ConfigError"
        /\ << ret.error.kind, ret.error.field >> = BrokenRule(config)
        /\ out = <<>>
        /\ inp = <<>>

\* brightness 101
C11_Witness ==
    /\ InSetConfig /\ config = 12 /\ Configs[12].brightness = 101
    /\ Done /\ ret.kind = "Err" /\ ret.error.kind = "FieldOutOfRange"
    /\ out = <<>> /\ inp = <<>>

\* the JSON text of BaseConfig and of FullConfig, written out byte by byte
\* {"ssid":"wifi","password":"pw","server":"10.0.0.2:24800","screen_name":"SAW","screen_width":800,"screen_height":600,"flip_wheel":false,"brightness":30}
BaseConfigJson ==
    << 123, 34, 115, 115, 105, 100, 34, 58, 34, 119, 105, 102, 105, 34, 44, 34, 112, 97, 115, 115, 119, 111, 114, 100, 34, 58, 34, 112, 119, 34, 44, 34, 115, 101, 114, 118, 101, 114, 34, 58, 34, 49, 48, 46, 48, 46, 48, 46, 50, 58, 50, 52, 56, 48, 48, 34, 44, 34, 115, 99, 114, 101, 101, 110, 95, 110, 97, 109, 101, 34, 58, 34, 83, 65, 87, 34, 44, 34, 115, 99, 114, 101, 101, 110, 95, 119, 105, 100, 116, 104, 34, 58, 56, 48, 48, 44, 34, 115, 99, 114, 101, 101, 110, 95, 104, 101, 105, 103, 104, 116, 34, 58, 54, 48, 48, 44, 34, 102, 108, 105, 112, 95, 119, 104, 101, 101, 108, 34, 58, 102, 97, 108, 115, 101, 44, 34, 98, 114, 105, 103, 104, 116, 110, 101, 115, 115, 34, 58, 51, 48, 125 >>
FullConfigJson ==
    << 123, 34, 115, 115, 105, 100, 34, 58, 34, 119, 105, 102, 105, 34, 44, 34, 112, 97, 115, 115, 119, 111, 114, 100, 34, 58, 34, 112, 119, 34, 44, 34, 115, 101, 114, 118, 101, 114, 34, 58, 34, 49, 48, 46, 48, 46, 48, 46, 50, 58, 50, 52, 56, 48, 48, 34, 44, 34, 115, 99, 114, 101, 101, 110, 95, 110, 97, 109, 101, 34, 58, 34, 97, 92, 34, 98, 92, 92, 99, 34, 44, 34, 115, 99, 114, 101, 101, 110, 95, 119, 105, 100, 116, 104, 34, 58, 56, 48, 48, 44, 34, 115, 99, 114, 101, 101, 110, 95, 104, 101, 105, 103, 104, 116, 34, 58, 54, 48, 48, 44, 34, 102, 108, 105, 112, 95, 119, 104, 101, 101, 108, 34, 58, 116, 114, 117, 101, 44, 34, 112, 111, 108, 108, 105, 110, 103, 95, 114, 97, 116, 101, 34, 58, 49, 50, 53, 44, 34, 98, 114, 105, 103, 104, 116, 110, 101, 115, 115, 34, 58, 51, 48, 44, 34, 105, 112, 95, 97, 100, 100, 114, 34, 58, 34, 49, 48, 46, 48, 46, 48, 46, 55, 47, 50, 52, 34, 44, 34, 100, 110, 115, 95, 115, 101, 114, 118, 101, 114, 34, 58, 91, 34, 56, 46, 56, 46, 56, 46, 56, 34, 44, 34, 49, 46, 49, 46, 49, 46, 49, 34, 93, 44, 34, 103, 97, 116, 101, 119, 97, 121, 34, 58, 34, 49, 48, 46, 48, 46, 48, 46, 49, 34, 44, 34, 112, 105, 100, 34, 58, 52, 44, 34, 119, 97, 116, 99, 104, 100, 111, 103, 95, 116, 105, 109, 101, 111, 117, 116, 34, 58, 51, 48, 125 >>

\* the number of bytes of the JSON text of each valid configuration of Configs
JsonLen(k) ==
    CASE k = 1 -> 151
      [] k = 2 -> 192
      [] k = 3 -> 193
      [] k = 4 -> 283
      [] k = 5 -> 16326

\* byte i (from 1) of the JSON text of the valid configuration k: written out
\* for BaseConfig and FullConfig
JsonByte(k, i) ==
    CASE k = 1 -> BaseConfigJson[i]
      [] k = 4 -> FullConfigJson[i]
      [] OTHER -> ConfigData[k][i]

\* C12: for a valid configuration whose JSON text has n bytes, set_config sends
\* the header ['w', ceil(n/64)], then exactly ceil(n/64) data packets holding
\* the consecutive 64-byte slices of the JSON text in order, then reads exactly
\* one response.  (out only grows during a call: the packet checked is the
\* last one.)
C12_WriteConfigSegmentation ==
    (InSetConfig /\ config \in 1..5) =>
        LET n == JsonLen(config)
            N == (n + 63) \div 64
            m == Len(out)
        IN  /\ m >= 1 => out[1] = << 119, N >>
            /\ m <= 1 + N
            /\ m >= 2 =>
                  /\ Len(out[m]) = IF 64 * (m - 1) <= n THEN 64 ELSE n - 64 * (m - 2)
                  /\ \A b \in 1..Len(out[m]) : out[m][b] = JsonByte(config, 64 * (m - 2) + b)
            /\ Len(inp) <= 1
            /\ Len(inp) = 1 => m = 1 + N
            /\ (Done /\ ret.kind = "Ok") => (Len(inp) = 1 /\ m = 1 + N)

OkCommands == {"set_config", "commit_config", "reboot_device", "keep_awake", "abort_ota"}

\* C14: set_config, commit_config, reboot_device, keep_awake and abort_ota
\* return Ok only if the response is exactly the one byte 'o'; a response of
\* any other length (empty, or 'o' followed by more bytes) or value returns
\* InvalidResponse.
C14_OnlyExactOk ==
    (op \in OkCommands) =>
        /\ Len(inp) <= 1
        /\ Len(inp) = 1 =>
              /\ Done
              /\ ret = IF inp[1] = << 111 >>
                       THEN [kind |-> "Ok", value |-> "unit"]
                       ELSE [kind |-> "Err", error |-> [variant |-> "InvalidResponse"]]
        /\ (Done /\ ret.kind = "Ok") => inp = << << 111 >> >>

\* keep_awake answered with 'o' followed by one more byte
C14_Witness ==
    /\ op = "keep_awake" /\ Done
    /\ out = << << 107, 1 >> >>
    /\ inp = << << 111, 0 >> >>
    /\ ret = [kind |-> "Err", error |-> [variant |-> "InvalidResponse"]]

\* C15: once commit_config or reboot_device has been invoked the caller no
\* longer holds the handle, whether the call returns Ok or an error: no command
\* begins until a new handle has been obtained by discovery, which happens
\* between commands only.
C15_HandleConsumed ==
    /\ [](op \in {"commit_config", "reboot_device"} => handle = "consumed")
    /\ [][handle = "consumed" => (op' = op \/ op' = "none")]_vars
    /\ [][(handle = "consumed" /\ handle' = "open")
            => (pc = "idle" /\ op = "none" /\ pc' = "idle" /\ op' = "none")]_vars
    /\ [][(pc = "idle" /\ pc' # "idle") => handle = "open"]_vars

\* commit_config has failed and the handle is gone
C15_Witness ==
    /\ op = "commit_config" /\ Done /\ ret.kind = "Err"
    /\ out = << << 99 >> >>
    /\ handle = "consumed"


----------------------------------------------------------------------------
(* Properties of get_config                                                *)

\* a packet without its last byte when that byte is 0
C13_Stripped(p) ==
    IF p # <<>> /\ p[Len(p)] = 0 THEN [i \in 1..(Len(p) - 1) |-> p[i]] ELSE p

\* the packets after the header, stripped and put end to end in arrival order
RECURSIVE C13_Joined(_, _)
C13_Joined(packets, n) ==
    IF n <= 1 THEN <<>>
    ELSE C13_Joined(packets, n - 1) \o C13_Stripped(packets[n])

\* the bytes 1..0xF4 of a text, in order
C13_Kept(d) == SelectSeq(d, LAMBDA b : b \in 1..244)

C13_Text == C13_Kept(C13_Joined(inp, Len(inp)))

C13_HeaderOk == Len(inp[1]) = 2 /\ inp[1][1] = 114

\* C13: get_config sends the one packet ['r']; a first response that is not
\* exactly ['r', N] gives InvalidResponse with nothing more read; otherwise
\* exactly N more packets are read, each loses at most one trailing 0, they are
\* joined in arrival order, the bytes 0 and above 0xF4 are removed, and the
\* text is parsed as JSON: the configuration when it parses,
\* FormatError("Invalid JSON format") when it does not.
C13_GetConfig ==
    op = "get_config" =>
        /\ \/ out = (IF pc = "get_config_write" THEN <<>> ELSE << <<114>> >>)
           \/ (pc = "done" /\ out = <<>> /\ inp = <<>> /\ ret = Err(TransferFailed))
        /\ (inp # <<>> /\ ~C13_HeaderOk) =>
               (pc = "done" /\ Len(inp) = 1 /\ ret = Err(InvalidResponse))
        /\ (inp # <<>> /\ C13_HeaderOk) =>
               /\ Len(inp) <= 1 + inp[1][2]
               /\ (pc = "done" /\ ret # Err(TransferFailed)) =>
                     /\ Len(inp) = 1 + inp[1][2]
                     /\ LET t == from_slice(C13_Text)
                        IN  ret = IF t.ok THEN Ok(t.val)
                                  ELSE Err([variant |-> "FormatError",
                                            msg |-> "Invalid JSON format"])
               /\ (pc = "done" /\ ret = Err(TransferFailed)) => Len(inp) <= inp[1][2]
               /\ pc = "get_config_block_read" => Len(inp) = 1 + block_no
        /\ (pc = "done" /\ inp = << <<114, 2>>, ConfigBlockA, ConfigBlockB >>) =>
               /\ ret.kind = "Ok"
               /\ ret.value = [DefaultConfig EXCEPT
                                 !.ssid = <<119, 105, 102, 105>>,
                                 !.server = <<49, 48, 46, 48, 46, 48, 46, 50, 58, 50, 52, 56, 48, 48>>,
                                 !.screen_name = <<83, 65, 87>>,
                                 !.screen_width = 800,
                                 !.brightness = 10]
        /\ (pc = "done" /\ inp = << <<114, 1>>, ConfigBlockSentinels >>) =>
               /\ ret.kind = "Ok"
               /\ ret.value = [DefaultConfig EXCEPT !.ssid = <<97>>, !.pid = 4]
        /\ (pc = "done" /\ inp = << <<114, 1>>, ConfigBlockF4 >>) =>
               ret = Err([variant |-> "FormatError", msg |-> "Invalid JSON format"])

\* two blocks read, the second ending in zeros, and the configuration returned
C13_Witness ==
    /\ op = "get_config"
    /\ pc = "done"
    /\ out = << <<114>> >>
    /\ inp = << <<114, 2>>, ConfigBlockA, ConfigBlockB >>
    /\ ret.kind = "Ok"
    /\ ret.value.screen_width = 800


----------------------------------------------------------------------------
(* Properties of a handle shared by tasks                                  *)

\* C16: whatever the tasks sharing the handle do, each endpoint has at most
\* one transfer submitted and not yet completed, and that transfer belongs to
\* the write/read of the task that holds the endpoint's mutex (held from
\* submit until the completion is received), so that completions come in the
\* order the mutex was acquired.
C16_OneTransferPerEndpoint ==
    \A ep \in {ep_out, ep_in} :
        /\ Len(ep.pending) <= 1
        /\ ep.pending # <<>> =>
              /\ ep.holder = ep.pending[1].by[1]
              /\ tasks[ep.holder].call = ep.pending[1].by[2]
              /\ tasks[ep.holder].at = "await"

\* the packets call c has on the bus, in the order of the bus
C17_Sent(c) ==
    LET own == SelectSeq(bus, LAMBDA p : p.by[2] = c)
    IN  [i \in 1..Len(own) |-> own[i].buf]

C17_IsUpload(c) == C17_Sent(c) # <<>> /\ C17_Sent(c)[1][1] = 79

\* bus[i] is an OtaData header
C17_IsHeader(i) == Len(bus[i].buf) = 4 /\ bus[i].buf[1] = 68 /\ C17_IsUpload(bus[i].by[2])

\* C17 as stated: with another task issuing commands on the shared handle,
\* every OtaData header is followed on the OUT endpoint by its own data packets
\* with no packet of another command in between, and every acknowledgement
\* upload_ota reads is the device's response to its own OtaStart or chunk.
C17_UploadNotInterleaved ==
    /\ \A i \in 1..Len(bus) :
          C17_IsHeader(i) =>
              \A j \in 1..bus[i].buf[2] : i + j <= Len(bus) => bus[i + j].by = bus[i].by
    /\ \A t \in DOMAIN tasks :
          tasks[t].cmd = "upload_ota" =>
              \A k \in 1..Len(tasks[t].got) : tasks[t].got[k].for = << t, tasks[t].call >>

\* the packets of upload_ota for the image of 65 bytes: OtaStart with the
\* length and the CRC-32, the header of the one chunk, its two data packets
C17_UploadPackets ==
    << << 79, 65, 0, 0, 0, 215, 117, 47, 74 >>,
       << 68, 2, 65, 0 >>,
       [i \in 1..64 |-> ((i - 1) * 37 + 11) % 256],
       [i \in 1..64 |-> IF i = 1 THEN 75 ELSE 0] >>

\* C17, amended: the packets of one upload_ota call reach the OUT endpoint
\* each as one whole transfer and in program order (OtaStart, then the header
\* of a chunk before its data packets); packets of other tasks' commands may
\* lie between them.
C17_UploadPacketsInProgramOrder ==
    \A c \in 1..calls :
        C17_IsUpload(c) =>
            /\ Len(C17_Sent(c)) <= Len(C17_UploadPackets)
            /\ \A i \in 1..Len(C17_Sent(c)) : C17_Sent(c)[i] = C17_UploadPackets[i]

\* an upload that returned Ok although the packet of another task's command
\* went out between the header of its chunk and the data packets
C17_Witness ==
    /\ tasks # <<>>
    /\ tasks["a"].cmd = "upload_ota"
    /\ tasks["a"].at = "idle"
    /\ tasks["a"].ret = Ok("unit")
    /\ \E i \in 1..Len(bus) :
          /\ C17_IsHeader(i)
          /\ i + 2 <= Len(bus)
          /\ bus[i].by[1] = "a"
          /\ bus[i + 1].by[1] = "b"
          /\ bus[i + 2].by = bus[i].by

\* C18: dropping the future of a command takes nothing back: the responses
\* the device has queued and the transfers submitted stay as they are, so the
\* response to a request that was written before the drop is still there for
\* the read of the next command.
C18_DropLeavesResponse ==
    [][\A t \in DOMAIN tasks :
          (tasks[t].ret # Cancelled /\ tasks'[t].ret = Cancelled)
              => /\ resp' = resp
                 /\ ep_in'.pending = ep_in.pending
                 /\ ep_out'.pending = ep_out.pending]_vars

\* get_state returned Ok with the response to an earlier get_state that was
\* dropped after its write had completed and before anything was read; its own
\* response is still queued
C18_Witness ==
    \E t \in DOMAIN tasks :
        /\ tasks[t].cmd = "get_state"
        /\ tasks[t].at = "idle"
        /\ tasks[t].ret.kind = "Ok"
        /\ Len(tasks[t].got) = 1
        /\ tasks[t].got[1].for[2] # tasks[t].call
        /\ \E x \in cancelled :
              /\ x.call = tasks[t].got[1].for[2]
              /\ x.step = 2
              /\ x.at = "ready"
        /\ \E i \in 1..Len(bus) : bus[i].by[2] = tasks[t].got[1].for[2] /\ bus[i].buf = << 115 >>
        /\ \E i \in 1..Len(resp) : resp[i].for = << t, tasks[t].call >>


----------------------------------------------------------------------------
(* Properties of wait_for_device                                           *)

\* the calls of try_open_device made in the scan, and those made for events
C19_ScanLog == SelectSeq(w_log, LAMBDA e : e.phase = "scan")
C20_WatchLog == SelectSeq(w_log, LAMBDA e : e.phase = "watch")

C19_BusyCount == Len(SelectSeq(C19_ScanLog, LAMBDA e : e.res = "DeviceBusy"))

\* C19: in the initial scan, for each listed device matching the filters: an
\* open that fails with DeviceBusy is followed by a sleep of one second and
\* another attempt on the same device, for as long as the result is
\* DeviceBusy; a successful open returns that device; any other error abandons
\* the device and the scan moves to the next matching candidate.
C19_ScanBusyRetry ==
    LET log  == C19_ScanLog
        n    == Len(log)
    IN  /\ \A i \in 1..n :
              /\ log[i].dev = w_devices[log[i].at]
              /\ log[i].dev \in {"kvm1", "kvm2"}
        /\ \A i \in 1..(n - 1) :
              /\ log[i].res # "Ok"
              /\ log[i].res = "DeviceBusy" => log[i + 1].at = log[i].at
              /\ log[i].res = "Other" =>
                    /\ log[i + 1].at > log[i].at
                    /\ \A k \in (log[i].at + 1)..(log[i + 1].at - 1) :
                          w_devices[k] \notin {"kvm1", "kvm2"}
        /\ n >= 1 =>
              /\ \A k \in 1..(log[1].at - 1) : w_devices[k] \notin {"kvm1", "kvm2"}
              /\ log[n].res = "Ok" => (w_pc = "done" /\ w_ret = Ok(log[n].dev) /\ w_log = log)
              /\ log[n].res = "DeviceBusy" =>
                    /\ w_pc \in {"sleep", "scan_open"}
                    /\ w_index = log[n].at
              /\ log[n].res = "Other" => w_index > log[n].at
        /\ w_slept = (IF w_pc = "sleep" THEN C19_BusyCount - 1 ELSE C19_BusyCount)
        /\ (w_pc = "done" /\ w_ret.kind = "Ok" /\ C20_WatchLog = <<>>) =>
              (n >= 1 /\ log[n].res = "Ok")

\* a device was busy twice, then failed otherwise, and the next matching
\* device of the list was opened and returned
C19_Witness ==
    /\ w_pc = "done"
    /\ w_ret = Ok("kvm2")
    /\ w_slept = 2
    /\ w_devices = << "kvm1", "hub", "kvm2" >>
    /\ Len(w_log) = 4
    /\ w_log[1].res = "DeviceBusy" /\ w_log[1].dev = "kvm1"
    /\ w_log[2].res = "DeviceBusy" /\ w_log[2].dev = "kvm1"
    /\ w_log[3].res = "Other" /\ w_log[3].dev = "kvm1"
    /\ w_log[4].res = "Ok" /\ w_log[4].phase = "scan"

\* the Connected events for matching devices among the events read so far
C20_Announced ==
    SelectSeq(SubSeq(w_events, 1, w_cursor),
              LAMBDA e : e.kind = "Connected" /\ e.dev \in {"kvm1", "kvm2"})

\* C20: the watcher exists before the devices are listed, so every device
\* connected after the call started is in the list or has a Connected event;
\* events are read only after the scan; for each Connected event of a matching
\* device, in order, one open is attempted and the first that succeeds is
\* returned; DeviceNotFound is returned only when the stream has ended with
\* every event read.
C20_WatchBeforeScan ==
    LET log == C20_WatchLog
        ann == C20_Announced
    IN  /\ (w_pc \notin {"idle", "list_devices"} /\ w_ret \notin {Panic, Err([variant |-> "Usb"])}) =>
              \A d \in w_new :
                  \/ \E k \in 1..Len(w_devices) : w_devices[k] = d
                  \/ \E k \in 1..Len(w_events) : w_events[k] = [kind |-> "Connected", dev |-> d]
        /\ w_pc = "list_devices" =>
              \A d \in w_new :
                  \E k \in 1..Len(w_events) : w_events[k] = [kind |-> "Connected", dev |-> d]
        /\ w_cursor > 0 => w_index > Len(w_devices)
        /\ Len(log) = (IF w_pc = "watch_open" THEN Len(ann) - 1 ELSE Len(ann))
        /\ \A i \in 1..Len(log) :
              /\ log[i].dev = ann[i].dev
              /\ i < Len(log) => log[i].res # "Ok"
        /\ (log # <<>> /\ log[Len(log)].res = "Ok") =>
              (w_pc = "done" /\ w_ret = Ok(log[Len(log)].dev))
        /\ (w_pc = "done" /\ w_ret.kind = "Ok") =>
              (w_log # <<>> /\ w_log[Len(w_log)].res = "Ok"
                 /\ w_ret = Ok(w_log[Len(w_log)].dev))
        /\ w_ret = Err([variant |-> "DeviceNotFound"]) =>
              /\ w_closed
              /\ w_cursor = Len(w_events)
              /\ w_index > Len(w_devices)
              /\ \A i \in 1..Len(w_log) : w_log[i].res # "Ok"

\* a device connected during the scan, after the list was taken, is returned
\* from its Connected event, after the event of another matching device whose
\* open failed
C20_Witness ==
    /\ w_pc = "done"
    /\ w_ret = Ok("kvm2")
    /\ "kvm2" \in w_new
    /\ \A k \in 1..Len(w_devices) : w_devices[k] # "kvm2"
    /\ Len(C20_WatchLog) = 2
    /\ C20_WatchLog[1].dev = "kvm1"
    /\ C20_WatchLog[1].res = "DeviceBusy"
    /\ C20_WatchLog[2].res = "Ok"
    /\ \E i \in 1..Len(w_log) : w_log[i].phase = "scan"

----------------------------------------------------------------------------
(* Properties of Esparrier::write                                          *)

\* C22: every write carries at most 64 bytes and is transmitted as a single
\* bulk OUT transfer of exactly 64 bytes, a shorter payload being padded with
\* zero bytes: every transfer submitted on the OUT endpoint has 64 bytes.
C22_WritesArePadded ==
    \A i \in 1..Len(out) : Len(out[i]) = PACKET_SIZE

----------------------------------------------------------------------------
(* Properties of auto_detect and try_open_device                           *)

\* the filter the claim describes: vid and pid compared with the value
\* supplied or else with the defaults, bus and address where supplied
C21_Matches(args, di) ==
    /\ di.vendor_id = (IF args.vid = <<>> THEN 3338 ELSE args.vid[1])
    /\ di.product_id = (IF args.pid = <<>> THEN 49374 ELSE args.pid[1])
    /\ args.bus # <<>> => bus_id_matches(di.bus_id, args.bus[1])
    /\ args.address # <<>> => di.device_address = args.address[1]

\* C21: a device is considered a match iff every supplied filter among vid,
\* pid, bus_id, device_address succeeds, with vid 0x0d0a and pid 0xc0de applied
\* when vid or pid is not supplied: try_open_device is called on exactly the
\* devices of the list that pass, so never on a device with another vendor or
\* product id when no vid or pid is given.
C21_DefaultIdsApplied ==
    d_pc \in {"for", "done"} =>
        /\ \A i \in 1..Len(d_log) : C21_Matches(d_args, usb[d_log[i].device])
        /\ \A j \in 1..Len(d_devices) :
              (j < d_index /\ C21_Matches(d_args, usb[d_devices[j]]))
                  => \E i \in 1..Len(d_log) : d_log[i].index = j

\* C23: a device whose claimed bulk endpoints report a max packet size other
\* than 64 bytes is refused: try_open_device returns an error for it and
\* auto_detect returns no handle on it.
C23_MaxPacketChecked ==
    /\ \A i \in 1..Len(d_log) :
          d_log[i].res.kind = "Ok" =>
              /\ d_log[i].res.value.ep_in.max_packet_size = PACKET_SIZE
              /\ d_log[i].res.value.ep_out.max_packet_size = PACKET_SIZE
    /\ d_ret.kind = "Some" =>
          /\ d_ret.value.ep_in.max_packet_size = PACKET_SIZE
          /\ d_ret.value.ep_out.max_packet_size = PACKET_SIZE

----------------------------------------------------------------------------
(* Properties of the JSON form of a configuration                          *)

\* whether the member "name": stands in the JSON text
MemberPresent(json, name) ==
    LET key == << 34 >> \o name \o << 34, 58 >>
    IN  \E i \in 1..(Len(json) - Len(key) + 1) : SubSeq(json, i, i + Len(key) - 1) = key

\* C24: for every configuration C accepted by validate, deserializing the JSON
\* produced by serializing C yields a configuration equal to C field by field,
\* the fields left out of the JSON included.
C24_RoundTrip ==
    (c_pc = "parsed" /\ c_valid.kind = "Ok") => c_parsed = Ok(c_config)

\* a valid configuration with a name that needs escaping, no ip_addr and the
\* default vid, neither of them in the JSON, was serialized and read back
C24_Witness ==
    /\ c_pc = "parsed"
    /\ c_valid.kind = "Ok"
    /\ c_config.screen_name = << 97, 34, 98, 92, 99 >>
    /\ c_config.ip_addr = <<>>
    /\ c_config.vid = 3338
    /\ ~MemberPresent(c_json, name_ip_addr)
    /\ ~MemberPresent(c_json, name_vid)
    /\ MemberPresent(c_json, name_screen_name)
    /\ c_parsed.kind = "Ok"
    /\ c_parsed.value.screen_name = << 97, 34, 98, 92, 99 >>
    /\ c_parsed.value.ip_addr = <<>>
    /\ c_parsed.value.vid = 3338

\* the fields with a declared default, and the names of their members
C25_Fields ==
    << << "screen_width", name_screen_width >>, << "screen_height", name_screen_height >>,
       << "flip_wheel", name_flip_wheel >>, << "polling_rate", name_polling_rate >>,
       << "jiggle_interval", name_jiggle_interval >>, << "brightness", name_brightness >>,
       << "vid", name_vid >>, << "pid", name_pid >>,
       << "manufacturer", name_manufacturer >>, << "product", name_product >>,
       << "serial_number", name_serial_number >>, << "landing_url", name_landing_url >>,
       << "watchdog_timeout", name_watchdog_timeout >> >>

\* C25: in the JSON serialization of a configuration, every field that has a
\* declared default (screen_width, screen_height, flip_wheel, polling_rate,
\* jiggle_interval, brightness, vid, pid, manufacturer, product, serial_number,
\* landing_url, watchdog_timeout) is absent when its value equals the default
\* and present otherwise.
C25_DefaultOmission ==
    (c_origin = "caller" /\ c_pc \in {"serialized", "parsed"}) =>
        \A k \in 1..Len(C25_Fields) :
            MemberPresent(c_json, C25_Fields[k][2])
                <=> c_config[C25_Fields[k][1]] # DefaultConfig[C25_Fields[k][1]]

\* C26: a configuration obtained from get_config, with only ssid replaced by a
\* valid non-empty value, passes the validation of set_config, also when the
\* device left password out of the payload and the parsed password is empty.
C26_ReadBackAccepted ==
    (c_origin = "device" /\ c_pc \in {"validated", "serialized", "parsed"}) =>
        c_valid.kind = "Ok"

----------------------------------------------------------------------------
(* Properties of EsparrierConfig::validate                                 *)

\* the fields validate examines, in the order it examines them
CheckOrder ==
    << "ssid", "password", "server", "screen_name", "screen_width", "screen_height",
       "brightness", "ip_addr", "dns_server", "gateway", "manufacturer", "product",
       "serial_number", "landing_url" >>

StringFields ==
    {"ssid", "password", "server", "screen_name", "manufacturer", "product",
     "serial_number", "landing_url"}

\* the maximum byte length of a string field
MaxBytes(f) == IF f = "ssid" THEN 32 ELSE IF f = "landing_url" THEN 255 ELSE 64

\* what is wrong with the string field f of c, "none" when nothing is
StringFlaw(c, f) ==
    IF f \notin StringFields THEN "none"
    ELSE IF Len(c[f]) = 0 /\ f # "landing_url" THEN "FieldEmpty"
    ELSE IF Len(c[f]) > MaxBytes(f) THEN "FieldTooLong"
    ELSE "none"

\* what is wrong with the number field f of c
NumberFlaw(c, f) ==
    IF f \in {"screen_width", "screen_height"} /\ c[f] \notin 1..32767 THEN "FieldOutOfRange"
    ELSE IF f = "brightness" /\ c[f] \notin 1..100 THEN "FieldOutOfRange"
    ELSE "none"

\* what is wrong with the address in field f of c
AddressFlaw(c, f) ==
    CASE f = "server" ->
            IF SocketAddrV4_parse_ok(c.server) THEN "none" ELSE "InvalidEndpoint"
      [] f = "ip_addr" ->
            IF c.ip_addr = <<>> THEN "none"
            ELSE LET ip == c.ip_addr[1]
                     slashes == {i \in 1..Len(ip) : ip[i] = 47}
                 IN  IF slashes = {} THEN "InvalidIpAddress"
                     ELSE LET i == CHOOSE j \in slashes : \A k \in slashes : j <= k
                          IN  IF ~Ipv4Addr_from_str_ok(SubSeq(ip, 1, i - 1))
                              THEN "InvalidIpAddress"
                              ELSE IF ~parse_u8_ok(SubSeq(ip, i + 1, Len(ip)))
                                   THEN "InvalidIpCidrPrefix"
                                   ELSE "none"
      [] f = "dns_server" ->
            IF \E i \in 1..Len(c.dns_server) : ~Ipv4Addr_from_str_ok(c.dns_server[i])
            THEN "InvalidIpAddress" ELSE "none"
      [] f = "gateway" ->
            IF c.gateway # <<>> /\ ~Ipv4Addr_from_str_ok(c.gateway[1])
            THEN "InvalidIpAddress" ELSE "none"
      [] OTHER -> "none"

\* what validate reports about field f: the length of a string before its content
Flaw(c, f) ==
    IF StringFlaw(c, f) # "none" THEN StringFlaw(c, f)
    ELSE IF NumberFlaw(c, f) # "none" THEN NumberFlaw(c, f)
    ELSE AddressFlaw(c, f)

\* no field examined before CheckOrder[k] has a flaw
FirstFlawAt(c, k) ==
    /\ Flaw(c, CheckOrder[k]) # "none"
    /\ \A j \in 1..(k - 1) : Flaw(c, CheckOrder[j]) = "none"

Flawless(c) == \A k \in 1..Len(CheckOrder) : Flaw(c, CheckOrder[k]) = "none"

\* validate has returned for c_config
Validated == c_pc \in {"validated", "serialized", "parsed"}

\* validate has returned the configuration error kind naming field f
Rejected(kind, f) ==
    /\ c_valid.kind = "Err"
    /\ c_valid.error.variant = "ConfigError"
    /\ c_valid.error.kind = kind
    /\ c_valid.error.field = f

\* C27 as stated: validate rejects with FieldEmpty(field) any configuration in
\* which ssid, password, server, screen_name, manufacturer, product or
\* serial_number is empty, and with FieldTooLong(field) any configuration in
\* which a string exceeds its maximum byte length; a string of the maximum
\* length is accepted and landing_url is the only string allowed to be empty.
C27_StringErrors ==
    Validated =>
        /\ (\E f \in StringFields : StringFlaw(c_config, f) = "FieldEmpty") =>
                \E f \in StringFields :
                    StringFlaw(c_config, f) = "FieldEmpty" /\ Rejected("FieldEmpty", f)
        /\ (\E f \in StringFields : StringFlaw(c_config, f) = "FieldTooLong") =>
                \E f \in StringFields :
                    StringFlaw(c_config, f) = "FieldTooLong" /\ Rejected("FieldTooLong", f)
        /\ Flawless(c_config) => c_valid.kind = "Ok"

\* C27, amended: a configuration with an empty or over-long string is always
\* rejected; the error is FieldEmpty(field) or FieldTooLong(field) for that
\* field when no field examined earlier has a flaw; FieldEmpty and
\* FieldTooLong are returned only for a field that is empty or over-long; a
\* configuration with no flaw, strings of the maximum length and an empty
\* landing_url included, is accepted.
C27_FirstStringError ==
    Validated =>
        /\ \A k \in 1..Len(CheckOrder) :
              StringFlaw(c_config, CheckOrder[k]) # "none" =>
                  /\ c_valid.kind = "Err"
                  /\ FirstFlawAt(c_config, k) =>
                        Rejected(StringFlaw(c_config, CheckOrder[k]), CheckOrder[k])
        /\ (c_valid.kind = "Err" /\ c_valid.error.kind \in {"FieldEmpty", "FieldTooLong"}) =>
              StringFlaw(c_config, c_valid.error.field) = c_valid.error.kind
        /\ Flawless(c_config) => c_valid.kind = "Ok"

\* a product name of 65 bytes in an otherwise valid configuration was rejected
\* as too long
C27_Witness ==
    /\ Validated
    /\ Len(c_config.product) = 65
    /\ \A k \in 1..Len(CheckOrder) : CheckOrder[k] # "product" => Flaw(c_config, CheckOrder[k]) = "none"
    /\ Rejected("FieldTooLong", "product")

\* every field but f is without flaw
OtherwiseValid(c, f) ==
    \A k \in 1..Len(CheckOrder) : CheckOrder[k] # f => Flaw(c, CheckOrder[k]) = "none"

NumberFields == {"screen_width", "screen_height", "brightness"}

\* C28: validate returns ConfigError::FieldOutOfRange for exactly the
\* configurations (otherwise valid) in which screen_width or screen_height lies
\* outside [1, 32767] or brightness lies outside [1, 100]: among the
\* configurations whose other fields are valid, the error is FieldOutOfRange
\* naming the field when its value is 0, 32768, 33000 or (brightness) 101 and
\* the configuration is accepted when the value is 1, 32767 or (brightness) 100.
C28_NumberErrors ==
    Validated =>
        \A f \in NumberFields :
            OtherwiseValid(c_config, f) =>
                LET lo == 1
                    hi == IF f = "brightness" THEN 100 ELSE 32767
                IN  /\ (c_config[f] < lo \/ c_config[f] > hi) =>
                          /\ Rejected("FieldOutOfRange", f)
                          /\ c_valid.error.min = lo
                          /\ c_valid.error.max = hi
                    /\ (c_config[f] >= lo /\ c_config[f] <= hi) => c_valid.kind = "Ok"
                    /\ (f # "brightness" /\ c_config[f] \in {0, 32768, 33000}) =>
                          Rejected("FieldOutOfRange", f)
                    /\ (f = "brightness" /\ c_config[f] \in {0, 101}) =>
                          Rejected("FieldOutOfRange", f)
                    /\ (f # "brightness" /\ c_config[f] \in {1, 32767}) => c_valid.kind = "Ok"
                    /\ (f = "brightness" /\ c_config[f] \in {1, 100}) => c_valid.kind = "Ok"

\* screen_height 32768 in an otherwise valid configuration was rejected
C28_Witness ==
    /\ Validated
    /\ c_config.screen_height = 32768
    /\ OtherwiseValid(c_config, "screen_height")
    /\ Rejected("FieldOutOfRange", "screen_height")

AddressFields == {"server", "ip_addr", "dns_server", "gateway"}

\* the address errors the specification names for given values of ip_addr:
\* "10.0.0.1", "10.0.0.1/abc", "10.0.0.1/256", "10.0.0.1/24/5", "10.0.0/24"
C29_Examples ==
    << << << 49, 48, 46, 48, 46, 48, 46, 49 >>, "InvalidIpAddress" >>,
       << << 49, 48, 46, 48, 46, 48, 46, 49, 47, 97, 98, 99 >>, "InvalidIpCidrPrefix" >>,
       << << 49, 48, 46, 48, 46, 48, 46, 49, 47, 50, 53, 54 >>, "InvalidIpCidrPrefix" >>,
       << << 49, 48, 46, 48, 46, 48, 46, 49, 47, 50, 52, 47, 53 >>, "InvalidIpCidrPrefix" >>,
       << << 49, 48, 46, 48, 46, 48, 47, 50, 52 >>, "InvalidIpAddress" >> >>

\* "not-an-endpoint"
NotAnEndpoint == << 110, 111, 116, 45, 97, 110, 45, 101, 110, 100, 112, 111, 105, 110, 116 >>

\* C29 as stated: validate maps each malformed address field to its own error
\* kind: a non-empty server that does not parse as IPv4:port gives
\* InvalidEndpoint("server"); an ip_addr without '/' or with a bad address
\* part gives InvalidIpAddress("ip_addr"); an ip_addr with a prefix that is not
\* a u8 gives InvalidIpCidrPrefix("ip_addr"); a bad dns_server entry or gateway
\* gives InvalidIpAddress naming the field; absent ip_addr and gateway and an
\* empty dns_server list are accepted.
C29_AddressErrors ==
    Validated =>
        /\ \A f \in AddressFields :
              (AddressFlaw(c_config, f) # "none" /\ (f = "server" => c_config.server # <<>>)) =>
                  Rejected(AddressFlaw(c_config, f), f)
        /\ Flawless(c_config) => c_valid.kind = "Ok"

\* C29, amended: a configuration with a malformed address is always rejected;
\* the error is the address error of that field (InvalidEndpoint for server,
\* InvalidIpAddress or InvalidIpCidrPrefix for ip_addr, InvalidIpAddress for
\* dns_server and gateway) when no field examined earlier has a flaw and, for
\* server, its length is between 1 and 64 bytes; the address errors are
\* returned only for a field with that flaw; the examples of the specification
\* give the errors it names; absent ip_addr and gateway and an empty
\* dns_server list are accepted.
C29_FirstAddressError ==
    Validated =>
        /\ \A k \in 1..Len(CheckOrder) :
              AddressFlaw(c_config, CheckOrder[k]) # "none" =>
                  /\ c_valid.kind = "Err"
                  /\ (FirstFlawAt(c_config, k) /\ StringFlaw(c_config, CheckOrder[k]) = "none") =>
                        Rejected(AddressFlaw(c_config, CheckOrder[k]), CheckOrder[k])
        /\ (c_valid.kind = "Err"
              /\ c_valid.error.kind \in {"InvalidEndpoint", "InvalidIpAddress", "InvalidIpCidrPrefix"}) =>
              AddressFlaw(c_config, c_valid.error.field) = c_valid.error.kind
        /\ \A e \in 1..Len(C29_Examples) :
              (c_config.ip_addr = << C29_Examples[e][1] >> /\ FirstFlawAt(c_config, 8)) =>
                  Rejected(C29_Examples[e][2], "ip_addr")
        /\ (c_config.server = NotAnEndpoint /\ FirstFlawAt(c_config, 3)) =>
              Rejected("InvalidEndpoint", "server")
        /\ (Flawless(c_config) /\ c_config.ip_addr = <<>> /\ c_config.gateway = <<>>
              /\ c_config.dns_server = <<>>) => c_valid.kind = "Ok"

\* ip_addr "10.0.0.1/24/5" in an otherwise valid configuration was rejected for
\* its prefix
C29_Witness ==
    /\ Validated
    /\ c_config.ip_addr = << << 49, 48, 46, 48, 46, 48, 46, 49, 47, 50, 52, 47, 53 >> >>
    /\ OtherwiseValid(c_config, "ip_addr")
    /\ Rejected("InvalidIpCidrPrefix", "ip_addr")

----------------------------------------------------------------------------
(* Properties of crc32                                                     *)

\* the IEEE 802.3 generator polynomial below x^32, 0x04C11DB7: x^26 + x^23 +
\* x^22 + x^16 + x^12 + x^11 + x^10 + x^8 + x^7 + x^5 + x^4 + x^2 + x + 1, as
\* << low half, high half >>
IEEE_Generator == << 7607, 1217 >>

\* bit n of the message, each byte sent least significant bit first
MsgBit(data, n) == (data[(n \div 8) + 1] \div (2 ^ (n % 8))) % 2

\* one step of the division by the generator: the register, bit 31 its highest
\* coefficient, takes the message bit b at the top and moves up by one
RefStep(r, b) ==
    LET top == ((r[2] \div 32768) + b) % 2
        up  == << (r[1] * 2) % 65536, ((r[2] * 2) % 65536) + (r[1] \div 32768) >>
    IN  IF top = 1
        THEN << Xor(up[1], IEEE_Generator[1]), Xor(up[2], IEEE_Generator[2]) >>
        ELSE up

RECURSIVE RefFold(_, _, _, _)
\* the register after the bits lo..hi of the message, from the register r
RefFold(data, lo, hi, r) ==
    IF lo > hi THEN r
    ELSE IF lo = hi THEN RefStep(r, MsgBit(data, lo))
    ELSE bind(RefFold(data, lo, (lo + hi) \div 2, r),
              LAMBDA left : RefFold(data, ((lo + hi) \div 2) + 1, hi, left))

\* the register after the whole message, from all ones
RefRemainder(data) == RefFold(data, 0, 8 * Len(data) - 1, << 65535, 65535 >>)

RECURSIVE Reflect(_, _)
\* the n low bits of x in the opposite order
Reflect(x, n) ==
    IF n = 0 THEN 0 ELSE (x % 2) * (2 ^ (n - 1)) + Reflect(x \div 2, n - 1)

\* the CRC-32 of IEEE 802.3: the complemented remainder, reflected
RefCrc(data) ==
    bind(RefRemainder(data),
         LAMBDA r : << Reflect(65535 - r[2], 16), Reflect(65535 - r[1], 16) >>)

\* C30: crc32 computes the reflected IEEE 802.3 CRC-32 of its input for every
\* byte sequence: crc32 of the empty input is 0x00000000, crc32 of "123456789"
\* is 0xCBF43926, and upload_ota computes it exactly once, over the whole
\* firmware, before OtaStart is sent with it.
C30_Crc32 ==
    /\ k_pc \in {"crc32", "summed", "started"} =>
          /\ k_crc = RefCrc(k_data)
          /\ k_data = <<>> => k_crc = << 0, 0 >>
          /\ k_data = CheckInput => k_crc = << 14630, 52212 >>
          /\ k_calls = 1
    /\ k_pc \in {"idle", "sized", "invalid"} => k_calls = 0 /\ k_out = <<>>
    /\ k_out # <<>> => k_pc = "started"
    /\ k_pc = "started" =>
          k_out = << << 79 >> \o u32_to_le_bytes(as_u32(Len(k_data)))
                        \o u32_to_le_bytes(RefCrc(k_data)) >>

\* upload_ota of "123456789" has sent 'O', 9 and 0xCBF43926
C30_Witness ==
    /\ k_pc = "started"
    /\ k_data = CheckInput
    /\ k_calls = 1
    /\ k_out = << << 79, 9, 0, 0, 0, 38, 57, 244, 203 >> >>

----------------------------------------------------------------------------
(* Properties of bus_id_matches                                            *)

\* the numeral s without its optional '+'
Unsigned(s) == IF Len(s) >= 1 /\ s[1] = 43 THEN SubSeq(s, 2, Len(s)) ELSE s

\* s is a decimal numeral: an optional '+' and at least one digit
IsNumeral(s) ==
    /\ Len(Unsigned(s)) >= 1
    /\ \A i \in 1..Len(Unsigned(s)) : Unsigned(s)[i] \in 48..57

\* the digits of the numeral s from its first digit that is not '0'
Significant(s) ==
    LET d == Unsigned(s)
        nonzero == {i \in 1..Len(d) : d[i] # 48}
    IN  IF nonzero = {} THEN <<>>
        ELSE SubSeq(d, CHOOSE i \in nonzero : \A j \in nonzero : i <= j, Len(d))

\* "4294967295", the largest u32
LargestU32 == << 52, 50, 57, 52, 57, 54, 55, 50, 57, 53 >>

\* the numeral s denotes a number of at most 2^32 - 1
IsU32(s) ==
    /\ IsNumeral(s)
    /\ LET d == Significant(s)
       IN  \/ Len(d) < Len(LargestU32)
           \/ /\ Len(d) = Len(LargestU32)
              /\ \/ d = LargestU32
                 \/ \E i \in 1..Len(d) :
                        /\ d[i] < LargestU32[i]
                        /\ \A j \in 1..(i - 1) : d[j] = LargestU32[j]

\* C31: bus_id_matches(a, b) is true iff a and b are equal as strings or both
\* parse as unsigned 32-bit integers with equal values; it is reflexive and
\* symmetric; ("3", "03") and ("usb1", "usb1") match and ("3", "4") does not.
C31_BusIdMatches ==
    m_pc = "returned" =>
        /\ m_ret <=> \/ m_a = m_b
                     \/ /\ IsU32(m_a)
                        /\ IsU32(m_b)
                        /\ Significant(m_a) = Significant(m_b)
        /\ m_a = m_b => m_ret
        /\ m_ret = m_rev
        /\ (m_a = << 51 >> /\ m_b = << 48, 51 >>) => m_ret
        /\ (m_a = << 117, 115, 98, 49 >> /\ m_b = << 117, 115, 98, 49 >>) => m_ret
        /\ (m_a = << 51 >> /\ m_b = << 52 >>) => ~m_ret

\* "3" and "03" were found to match, in both orders
C31_Witness ==
    /\ m_pc = "returned"
    /\ m_a = << 51 >>
    /\ m_b = << 48, 51 >>
    /\ m_ret
    /\ m_rev

----------------------------------------------------------------------------
(* Properties of get_ota_progress                                          *)

InGetOtaProgress == op = "get_ota_progress"

\* the little-endian value of the four bytes after the first i bytes of r
C32_Value(r, i) ==
    << r[i + 1] + 256 * r[i + 2], r[i + 3] + 256 * r[i + 4] >>

\* C32: get_ota_progress sends one 'P' packet, reads one response and decodes
\* it: 'P' with at least 9 bytes gives Ok(Some((received, total))), both read
\* as u32 little-endian from bytes 1..5 and 5..9; 'o' gives Ok(None); 'e' gives
\* the decoded OTA error; an empty response, a shorter 'P' response or any
\* other first byte gives InvalidResponse.
C32_ProgressDecode ==
    InGetOtaProgress =>
        /\ out \in {<<>>, << << 80 >> >>}
        /\ Len(inp) <= 1
        /\ inp # <<>> => (Done /\ Len(out) = 1)
        /\ (Done /\ inp = <<>>) => ret = Err(TransferFailed)
        /\ (Done /\ inp # <<>>) =>
              LET r == inp[1]
              IN  IF Len(r) = 0 THEN ret = Err(InvalidResponse)
                  ELSE CASE r[1] = 80 ->
                                IF Len(r) >= 9
                                THEN ret = Ok(<< << C32_Value(r, 1), C32_Value(r, 5) >> >>)
                                ELSE ret = Err(InvalidResponse)
                         [] r[1] = 111 -> ret = Ok(<<>>)
                         [] r[1] = 101 ->
                                /\ ret.kind = "Err"
                                /\ IF Len(r) >= 3 /\ r[2] = 79
                                   THEN ret.error = OtaError(ota_error_msg(r[3]))
                                   ELSE ret.error = InvalidResponse
                         [] OTHER -> ret = Err(InvalidResponse)
        /\ (Done /\ inp = << << 80, 4, 3, 2, 1, 0, 0, 16, 0 >> >>) =>
              ret = Ok(<< << << 772, 258 >>, << 0, 16 >> >> >>)

\* the response 'P', 0x01020304, 0x00100000 followed by two more bytes was
\* decoded as Some((0x01020304, 0x00100000))
C32_Witness ==
    /\ InGetOtaProgress
    /\ Done
    /\ out = << << 80 >> >>
    /\ inp = << << 80, 4, 3, 2, 1, 0, 0, 16, 0, 7, 7 >> >>
    /\ ret = Ok(<< << << 772, 258 >>, << 0, 16 >> >> >>)

----------------------------------------------------------------------------
(* Properties of list_devices                                              *)

\* the devices of the enumeration with the ids asked for, 0x0d0a and 0xc0de
\* when not supplied
C33_Listed ==
    SelectSeq(d_devices,
              LAMBDA d : /\ usb[d].vendor_id = (IF d_args.vid = <<>> THEN 3338 ELSE d_args.vid[1])
                         /\ usb[d].product_id = (IF d_args.pid = <<>> THEN 49374 ELSE d_args.pid[1]))

\* C33: list_devices never fails: it returns the (bus_id, device_address) pair
\* of every connected device whose vendor id equals vid (0x0d0a when not
\* supplied) and whose product id equals pid (0xc0de when not supplied), in
\* enumeration order, and an empty list when enumeration itself fails.
C33_ListDevices ==
    d_pc = "listed" =>
        /\ d_ret.kind = "Vec"
        /\ Len(d_ret.value) = Len(C33_Listed)
        /\ \A i \in 1..Len(C33_Listed) :
              d_ret.value[i] = << usb[C33_Listed[i]].bus_id, usb[C33_Listed[i]].device_address >>
        /\ d_index = 0 => d_ret.value = <<>>

\* with no vid and no pid given and all four devices connected, the two with
\* ids 0x0d0a:0xc0de were listed: ("03", 5) and ("1", 5)
C33_Witness ==
    /\ d_pc = "listed"
    /\ d_args.vid = <<>>
    /\ d_args.pid = <<>>
    /\ Len(d_devices) = 4
    /\ d_ret.value = << << << 48, 51 >>, 5 >>, << << 49 >>, 5 >> >>

----------------------------------------------------------------------------
(* Properties of failed transfers                                          *)

\* C34: no control or OTA operation retries a transfer: when a bulk write or
\* read inside a command completes with a failure status, the command returns
\* Err(TransferFailed) at once and issues no further write or read; a failed
\* block write in set_config is followed by no further block and by no read
\* of the response.
C34_NoRetry ==
    [][/\ failed' > failed => (pc' = "done" /\ ret' = Err(TransferFailed))
       /\ failed > 0 => /\ Len(out') <= Len(out)
                        /\ Len(inp') <= Len(inp)
                        /\ failed' = 0
       /\ failed' <= 1]_vars

\* the write of the first of several blocks of set_config failed: the header and
\* that block are all that was written, nothing was read
C34_Witness ==
    /\ InSetConfig
    /\ Done
    /\ failed = 1
    /\ ret = Err(TransferFailed)
    /\ chunks_count(whole(Len(ConfigData[config])), PACKET_SIZE) >= 2
    /\ Len(out) = 2
    /\ inp = <<>>

----------------------------------------------------------------------------
(* Properties of try_open_device                                           *)

\* the alt settings of a device with the class, subclass and protocol of the
\* vendor interface, as positions in the active configuration
VendorAlts(d) ==
    {i \in 1..Len(usb[d].alt_settings) :
        /\ usb[d].alt_settings[i].class = 255
        /\ usb[d].alt_settings[i].subclass = 13
        /\ usb[d].alt_settings[i].protocol = 10}

Lowest(S) == CHOOSE i \in S : \A j \in S : i <= j

\* the alt setting in use once the interface of the vendor alt setting is
\* claimed: the first alt setting of that interface
ClaimedAlt(d) ==
    LET number == usb[d].alt_settings[Lowest(VendorAlts(d))].interface_number
    IN  usb[d].alt_settings[Lowest({i \in 1..Len(usb[d].alt_settings) :
                                        usb[d].alt_settings[i].interface_number = number})]

\* the endpoints of an alt setting in a direction, as positions
Towards(alt, direction) ==
    {k \in 1..Len(alt.endpoints) : alt.endpoints[k].direction = direction}

\* C35: once the device is open and its active configuration is read,
\* try_open_device fails with UnknownDevice when no alt setting has class
\* 0xFF, subclass 0x0D, protocol 0x0A, or when the interface is claimed and its
\* alt setting lacks an IN or an OUT endpoint; a claim that fails with
\* PermissionDenied gives Error::PermissionDenied and any other claim failure
\* gives Error::DeviceBusy; a handle returned uses the first IN and the first
\* OUT endpoint of the claimed alt setting
C35_TryOpenDevice ==
    o_pc = "returned" =>
        /\ (o_env.open = "Ok" /\ o_env.active_configuration = "Ok") =>
              IF VendorAlts(o_di) = {} THEN o_ret = Err(UnknownDevice)
              ELSE /\ o_env.claim_interface = "PermissionDenied" => o_ret = Err(PermissionDenied)
                   /\ o_env.claim_interface = "Other" => o_ret = Err(DeviceBusy)
                   /\ (/\ o_env.claim_interface = "Ok"
                       /\ \/ Towards(ClaimedAlt(o_di), "In") = {}
                          \/ Towards(ClaimedAlt(o_di), "Out") = {})
                          => o_ret = Err(UnknownDevice)
        /\ o_ret.kind = "Ok" =>
              /\ VendorAlts(o_di) # {}
              /\ o_env.claim_interface = "Ok"
              /\ Towards(ClaimedAlt(o_di), "In") # {}
              /\ Towards(ClaimedAlt(o_di), "Out") # {}
              /\ o_ret.value.ep_in
                    = ClaimedAlt(o_di).endpoints[Lowest(Towards(ClaimedAlt(o_di), "In"))]
              /\ o_ret.value.ep_out
                    = ClaimedAlt(o_di).endpoints[Lowest(Towards(ClaimedAlt(o_di), "Out"))]

\* try_open_device returned a handle on the device whose vendor interface has
\* two alt settings and two endpoints each way
C35_Witness ==
    /\ o_pc = "returned"
    /\ o_di = "dual"
    /\ o_ret = Ok([device_info |-> "dual",
                   ep_in |-> Endpoint(131, "In", "Bulk", 64),
                   ep_out |-> Endpoint(2, "Out", "Bulk", 64)])

----------------------------------------------------------------------------
(* Properties of the order of the transfers of upload_ota                  *)

\* the writes of upload_ota up to the header of chunk k (from 0), not
\* included: OtaStart, then a header and 4096 / 64 data packets for each
\* chunk before it
WritesBeforeHeader(k) == 1 + k * (1 + (4096 \div 64))

\* the data packets of chunk k of a firmware of n bytes
DataPacketsOf(n, k) ==
    LET len == IF n - k * 4096 < 4096 THEN n - k * 4096 ELSE 4096
    IN  (len + 63) \div 64

\* C36: upload_ota is stop-and-wait with a window of one chunk: the header of
\* chunk k is written after all the writes of the chunks before it and exactly
\* k + 1 reads (the response to OtaStart and one acknowledgement per chunk),
\* the last of which, for k >= 1, began with 'P' or 'o'; and the read of the
\* acknowledgement of chunk k comes after the last data packet of chunk k
C36_StopAndWait ==
    [][InUploadOta =>
          /\ (pc = "ota_header_write" /\ out' # out) =>
                /\ Len(out') = Len(out) + 1
                /\ Len(out'[Len(out')]) = 4 /\ out'[Len(out')][1] = 68
                /\ Len(out) = WritesBeforeHeader(chunk_no)
                /\ Len(inp) = chunk_no + 1
                /\ inp' = inp
                /\ Len(inp[Len(inp)]) >= 1
                /\ inp[Len(inp)][1] \in (IF chunk_no = 0 THEN {111} ELSE {80, 111})
          /\ (Len(out') = Len(out) + 1 /\ Len(out) >= 1
                  /\ Len(out'[Len(out')]) = 4 /\ out'[Len(out')][1] = 68)
                => pc = "ota_header_write"
          /\ (pc = "ota_ack_read" /\ inp' # inp) =>
                /\ Len(inp') = Len(inp) + 1
                /\ Len(inp) = chunk_no + 1
                /\ out' = out
                /\ Len(out) = WritesBeforeHeader(chunk_no) + 1
                                  + DataPacketsOf(total_size, chunk_no)]_vars

\* the header of the second chunk has been written, after the acknowledgement
\* 'P' of the first
C36_Witness ==
    /\ InUploadOta
    /\ pc = "ota_packet_write"
    /\ chunk_no = 1
    /\ packet_no = 0
    /\ Len(out) = WritesBeforeHeader(1) + 1
    /\ Len(inp) = 2
    /\ inp[2][1] = 80

----------------------------------------------------------------------------
(* Properties of the result of upload_ota                                  *)

\* C37: whenever upload_ota returns Ok, the cumulative bytes sent equal the
\* firmware length: a 'C' response received for a chunk that is not the last
\* does not end the upload successfully with data still unsent
C37_OkAfterAllSent ==
    (InUploadOta /\ Done /\ ret = Ok("unit")) => sent = total_size

----------------------------------------------------------------------------
(* Properties of the block count of set_config                             *)

\* C38: for every configuration that passes validate, once set_config has
\* written the header and all its data packets, the num_blocks byte of the
\* header equals the number of data packets that follow it: the block count
\* is never truncated when stored in one byte
C38_BlockCountFits ==
    (InSetConfig /\ pc = "set_config_read") =>
        /\ Len(out) >= 1
        /\ out[1][1] = 119
        /\ out[1][2] = Len(out) - 1

----------------------------------------------------------------------------
(* Liveness of wait_for_device                                             *)

\* the list of the scan holds a matching device that is connected and free
C39_Openable ==
    \E i \in 1..Len(w_devices) :
        /\ w_devices[i] \in {"kvm1", "kvm2"}
        /\ w_devices[i] \in plugged
        /\ w_devices[i] \notin w_held

C39_Returned == w_pc = "done" /\ w_ret.kind = "Ok"

\* C39: if at the time of the initial scan some matching connected device can
\* be opened, wait_for_device eventually returns a handle, even when a
\* matching device earlier in the enumeration stays busy forever
C39_ScanReturns ==
    (w_pc = "scan" /\ w_index = 1 /\ C39_Openable) ~> C39_Returned

\* the opens attempted for Connected events that failed with DeviceBusy
C40_BusyAnnounced(d) ==
    \E n \in 1..Len(w_log) :
        w_log[n].phase = "watch" /\ w_log[n].dev = d /\ w_log[n].res = "DeviceBusy"

\* C40: a matching device announced by a Connected event while another process
\* holds its interface, and released afterwards, is eventually opened and
\* wait_for_device returns, without a further Connected event for it
C40_EventRetry ==
    \A d \in {"kvm1", "kvm2"} :
        (C40_BusyAnnounced(d) /\ d \in plugged /\ d \notin w_held) ~> C39_Returned

=============================================================================
